---- MODULE Spec2Model ----
(***************************************************************************)
(* Vessel allision analysis for the Chesapeake Bay Bridge (eastbound),     *)
(* src/vessel_analysis.py, as driven by src/dashboard.py.                  *)
(*                                                                         *)
(* Units.  The source computes in floating point; the model computes in    *)
(* integers at a fixed resolution:                                         *)
(*   latitude, longitude   1e-2 degree   (3900 is 39.00, -7639 is -76.39)  *)
(*   speed over ground     knot                                            *)
(*   course over ground    degree                                          *)
(*   bearing               1e-3 degree, as the pair lo, hi (see below)     *)
(*   distance              1e-5 nautical mile, rounded down                *)
(*   length                metre                                           *)
(*   mass                  tonne, rounded up                               *)
(*   impact force          kilonewton, rounded down                        *)
(*   time to pier          1e-3 minute, rounded down                       *)
(* Rounding a distance down keeps every comparison d < 0.5, d < 1.0 and    *)
(* d < 2.0 of the source; rounding a mass up keeps m > 50000 and           *)
(* m > 10000.  An angle that need not be a whole number of units is the    *)
(* record [lo, hi] of the whole numbers of units next below and next above *)
(* it (lo = hi when it is whole): against a course in whole degrees, lo    *)
(* and hi fix the difference rounded down and rounded up.  The floating    *)
(* point functions of the source are tabulated at the points the model     *)
(* uses (HaversineTable, BearingTable, PowerLawTable, ImpactForceTable,    *)
(* TimeTable): each entry is the value the source computes there, from its *)
(* unrounded arguments, at the resolution above.                           *)
(*                                                                         *)
(* Python values.  A value that may be None, a number, a string or a dict  *)
(* is a record tagged by t: None, Num(n), Str(s), Dict(d).  A string is a  *)
(* sequence of one-character strings, so that substring search and         *)
(* lower-casing are computed.  A Python dict is a function whose domain is *)
(* its set of keys; the pier table, whose iteration order matters, is the  *)
(* sequence of its keys in insertion order.                                *)
(***************************************************************************)
EXTENDS Integers, Sequences, FiniteSets, TLC

VARIABLES
    vessel,        \* the report passed to analyze_vessel_threat
    piers,         \* the pier table passed to analyze_vessel_threat, or None
    analysis,      \* what analyze_vessel_threat returned
    vessels_data,  \* the report list passed to analyze_all_vessels
    analyses,      \* what analyze_all_vessels returned
    summary,       \* what get_threat_summary returned
    pc             \* position of the caller

vars == <<vessel, piers, analysis, vessels_data, analyses, summary, pc>>

----------------------------------------------------------------------------
(* Python values *)

None == [t |-> "null"]

Num(n) == [t |-> "num", n |-> n]

Str(s) == [t |-> "str", s |-> s]

Dict(d) == [t |-> "dict", d |-> d]

PierDict(keys) == [t |-> "piers", keys |-> keys]

IsNone(x) == x.t = "null"

\* bool(x): None, 0, '' and {} are false
Truthy(x) ==
    CASE x.t = "null" -> FALSE
      [] x.t = "num" -> x.n # 0
      [] x.t = "str" -> Len(x.s) > 0
      [] x.t = "dict" -> DOMAIN x.d # {}
      [] x.t = "piers" -> Len(x.keys) > 0

\* d.get(key, default)
Get(d, key, default) == IF key \in DOMAIN d THEN d[key] ELSE default

\* x or y
Or(x, y) == IF Truthy(x) THEN x ELSE y

EmptyDict == [k \in {} |-> None]

UpperCase ==
    <<"A","B","C","D","E","F","G","H","I","J","K","L","M",
      "N","O","P","Q","R","S","T","U","V","W","X","Y","Z">>

LowerCase ==
    <<"a","b","c","d","e","f","g","h","i","j","k","l","m",
      "n","o","p","q","r","s","t","u","v","w","x","y","z">>

\* str.lower()
Lower(s) ==
    [i \in 1..Len(s) |->
        IF \E k \in 1..Len(UpperCase) : UpperCase[k] = s[i]
        THEN LowerCase[CHOOSE k \in 1..Len(UpperCase) : UpperCase[k] = s[i]]
        ELSE s[i]]

Digits == <<"0","1","2","3","4","5","6","7","8","9">>

RECURSIVE Decimal(_)
Decimal(n) ==
    IF n < 10 THEN <<Digits[n + 1]>>
    ELSE Decimal(n \div 10) \o <<Digits[(n % 10) + 1]>>

\* str(x) of a string or of a non-negative integer
StrOf(x) == IF x.t = "str" THEN x.s ELSE Decimal(x.n)

\* kw in s
Contains(s, kw) ==
    \E i \in 0..(Len(s) - Len(kw)) : SubSeq(s, i + 1, i + Len(kw)) = kw

----------------------------------------------------------------------------
(* Pier tables *)

\* the keys of CHESAPEAKE_BAY_BRIDGE_EASTBOUND_PIERS in insertion order
CHESAPEAKE_BAY_BRIDGE_EASTBOUND_PIERS ==
    <<"Pier 1", "Pier 2", "Pier 3", "Pier 4", "Pier 5", "Pier 6",
      "Pier 7 (Anchorage)", "Pier 8", "Pier 9 (Tower)", "Pier 10 (Tower)",
      "Pier 11", "Pier 12 (Anchorage)", "Pier 13", "Pier 14", "Pier 15",
      "Pier 16", "Pier 17", "Pier 18", "Pier 19", "Pier 20">>

\* Piers a caller passes in a table of its own:
\*   Test A  (39.0, -76.4)               Test B  (39.0, -76.4), the place of A
\*   Test C  (39.0, -76.37)              Test D  (39.01, -76.39)
\*   Test E  (38.98, -76.39)             Test H  (39.0083277175741, -76.39)
\* Test H is 0.5000000000001841 nm due north of (39.0, -76.39).
TestPiers == {"Test A", "Test B", "Test C", "Test D", "Test E", "Test H"}

\* haversine_distance(lat/100, lon/100, pier lat, pier lon), in 1e-5 nm
HaversineTable ==
    <<0, 0>> :> (
        "Pier 1" :> 477165457 @@ "Pier 2" :> 477158139 @@ "Pier 3" :> 477142596 @@ "Pier 4" :> 477137433 @@
        "Pier 5" :> 477118735 @@ "Pier 6" :> 477109256 @@ "Pier 7 (Anchorage)" :> 477086708 @@ "Pier 8" :> 477080873 @@
        "Pier 9 (Tower)" :> 477070048 @@ "Pier 10 (Tower)" :> 477044061 @@ "Pier 11" :> 477033292 @@ "Pier 12 (Anchorage)" :> 477026012 @@
        "Pier 13" :> 477017028 @@ "Pier 14" :> 477007338 @@ "Pier 15" :> 476999512 @@ "Pier 16" :> 476989844 @@
        "Pier 17" :> 476981858 @@ "Pier 18" :> 476957172 @@ "Pier 19" :> 476928445 @@ "Pier 20" :> 476880862 @@
        "Test A" :> 477145246 @@ "Test B" :> 477145246 @@ "Test C" :> 477006863 @@ "Test D" :> 477108162 @@
        "Test E" :> 477081034 @@ "Test H" :> 477106649) @@
    <<0, -7639>> :> (
        "Pier 1" :> 234197949 @@ "Pier 2" :> 234186085 @@ "Pier 3" :> 234161264 @@ "Pier 4" :> 234153875 @@
        "Pier 5" :> 234137753 @@ "Pier 6" :> 234133170 @@ "Pier 7 (Anchorage)" :> 234126112 @@ "Pier 8" :> 234124693 @@
        "Pier 9 (Tower)" :> 234121017 @@ "Pier 10 (Tower)" :> 234113293 @@ "Pier 11" :> 234110267 @@ "Pier 12 (Anchorage)" :> 234107930 @@
        "Pier 13" :> 234105627 @@ "Pier 14" :> 234102931 @@ "Pier 15" :> 234100561 @@ "Pier 16" :> 234097877 @@
        "Pier 17" :> 234095689 @@ "Pier 18" :> 234087816 @@ "Pier 19" :> 234079465 @@ "Pier 20" :> 234065771 @@
        "Test A" :> 234157803 @@ "Test B" :> 234157803 @@ "Test C" :> 234157822 @@ "Test D" :> 234217837 @@
        "Test E" :> 234037715 @@ "Test H" :> 234207796) @@
    <<3897, 0>> :> (
        "Pier 1" :> 344997581 @@ "Pier 2" :> 344997823 @@ "Pier 3" :> 344998117 @@ "Pier 4" :> 344997719 @@
        "Pier 5" :> 344990111 @@ "Pier 6" :> 344984173 @@ "Pier 7 (Anchorage)" :> 344967821 @@ "Pier 8" :> 344963352 @@
        "Pier 9 (Tower)" :> 344955669 @@ "Pier 10 (Tower)" :> 344936587 @@ "Pier 11" :> 344928579 @@ "Pier 12 (Anchorage)" :> 344923335 @@
        "Pier 13" :> 344916525 @@ "Pier 14" :> 344909305 @@ "Pier 15" :> 344903586 @@ "Pier 16" :> 344896377 @@
        "Pier 17" :> 344890408 @@ "Pier 18" :> 344872598 @@ "Pier 19" :> 344851404 @@ "Pier 20" :> 344816225 @@
        "Test A" :> 345002527 @@ "Test B" :> 345002527 @@ "Test C" :> 344877045 @@ "Test D" :> 344934092 @@
        "Test E" :> 345013935 @@ "Test H" :> 344938542) @@
    <<3897, -7639>> :> (
        "Pier 1" :> 228554 @@ "Pier 2" :> 215640 @@ "Pier 3" :> 188658 @@ "Pier 4" :> 180539 @@
        "Pier 5" :> 161706 @@ "Pier 6" :> 156124 @@ "Pier 7 (Anchorage)" :> 148637 @@ "Pier 8" :> 147628 @@
        "Pier 9 (Tower)" :> 145303 @@ "Pier 10 (Tower)" :> 144164 @@ "Pier 11" :> 145260 @@ "Pier 12 (Anchorage)" :> 146173 @@
        "Pier 13" :> 148348 @@ "Pier 14" :> 151070 @@ "Pier 15" :> 153515 @@ "Pier 16" :> 157247 @@
        "Pier 17" :> 160733 @@ "Pier 18" :> 172600 @@ "Pier 19" :> 190202 @@ "Pier 20" :> 224699 @@
        "Test A" :> 186069 @@ "Test B" :> 186069 @@ "Test C" :> 202869 @@ "Test D" :> 240161 @@
        "Test E" :> 60040 @@ "Test H" :> 230121) @@
    <<3898, 0>> :> (
        "Pier 1" :> 344970915 @@ "Pier 2" :> 344971159 @@ "Pier 3" :> 344971458 @@ "Pier 4" :> 344971062 @@
        "Pier 5" :> 344963458 @@ "Pier 6" :> 344957522 @@ "Pier 7 (Anchorage)" :> 344941172 @@ "Pier 8" :> 344936704 @@
        "Pier 9 (Tower)" :> 344929022 @@ "Pier 10 (Tower)" :> 344909944 @@ "Pier 11" :> 344901937 @@ "Pier 12 (Anchorage)" :> 344896694 @@
        "Pier 13" :> 344889885 @@ "Pier 14" :> 344882666 @@ "Pier 15" :> 344876948 @@ "Pier 16" :> 344869741 @@
        "Pier 17" :> 344863772 @@ "Pier 18" :> 344845966 @@ "Pier 19" :> 344824776 @@ "Pier 20" :> 344789603 @@
        "Test A" :> 344975868 @@ "Test B" :> 344975868 @@ "Test C" :> 344850398 @@ "Test D" :> 344907428 @@
        "Test E" :> 344987300 @@ "Test H" :> 344911879) @@
    <<3898, -7639>> :> (
        "Pier 1" :> 171441 @@ "Pier 2" :> 158367 @@ "Pier 3" :> 130964 @@ "Pier 4" :> 122643 @@
        "Pier 5" :> 102623 @@ "Pier 6" :> 96476 @@ "Pier 7 (Anchorage)" :> 88732 @@ "Pier 8" :> 88005 @@
        "Pier 9 (Tower)" :> 86634 @@ "Pier 10 (Tower)" :> 90020 @@ "Pier 11" :> 93724 @@ "Pier 12 (Anchorage)" :> 96599 @@
        "Pier 13" :> 101235 @@ "Pier 14" :> 106714 @@ "Pier 15" :> 111433 @@ "Pier 16" :> 117897 @@
        "Pier 17" :> 123577 @@ "Pier 18" :> 142033 @@ "Pier 19" :> 166024 @@ "Pier 20" :> 208627 @@
        "Test A" :> 128830 @@ "Test B" :> 128830 @@ "Test C" :> 152087 @@ "Test D" :> 180121 @@
        "Test E" :> 0 @@ "Test H" :> 170080) @@
    <<3900, 0>> :> (
        "Pier 1" :> 344917598 @@ "Pier 2" :> 344917847 @@ "Pier 3" :> 344918156 @@ "Pier 4" :> 344917763 @@
        "Pier 5" :> 344910167 @@ "Pier 6" :> 344904234 @@ "Pier 7 (Anchorage)" :> 344887890 @@ "Pier 8" :> 344883424 @@
        "Pier 9 (Tower)" :> 344875745 @@ "Pier 10 (Tower)" :> 344856673 @@ "Pier 11" :> 344848669 @@ "Pier 12 (Anchorage)" :> 344843428 @@
        "Pier 13" :> 344836622 @@ "Pier 14" :> 344829405 @@ "Pier 15" :> 344823689 @@ "Pier 16" :> 344816484 @@
        "Pier 17" :> 344810517 @@ "Pier 18" :> 344792718 @@ "Pier 19" :> 344771535 @@ "Pier 20" :> 344736374 @@
        "Test A" :> 344922567 @@ "Test B" :> 344922567 @@ "Test C" :> 344797120 @@ "Test D" :> 344854114 @@
        "Test E" :> 344934046 @@ "Test H" :> 344858568) @@
    <<3900, -7639>> :> (
        "Pier 1" :> 73015 @@ "Pier 2" :> 62195 @@ "Pier 3" :> 43590 @@ "Pier 4" :> 39550 @@
        "Pier 5" :> 30431 @@ "Pier 6" :> 28331 @@ "Pier 7 (Anchorage)" :> 32613 @@ "Pier 8" :> 35716 @@
        "Pier 9 (Tower)" :> 43810 @@ "Pier 10 (Tower)" :> 66130 @@ "Pier 11" :> 76033 @@ "Pier 12 (Anchorage)" :> 83004 @@
        "Pier 13" :> 91437 @@ "Pier 14" :> 100737 @@ "Pier 15" :> 108386 @@ "Pier 16" :> 117792 @@
        "Pier 17" :> 125590 @@ "Pier 18" :> 150228 @@ "Pier 19" :> 178795 @@ "Pier 20" :> 226330 @@
        "Test A" :> 46660 @@ "Test B" :> 46660 @@ "Test C" :> 93320 @@ "Test D" :> 60040 @@
        "Test E" :> 120080 @@ "Test H" :> 50000)

\* calculate_bearing(lat/100, lon/100, pier lat, pier lon), in 1e-3 degree
BearingTable ==
    <<0, 0>> :> (
        "Pier 1" :> 309805 @@ "Pier 2" :> 309803 @@ "Pier 3" :> 309799 @@ "Pier 4" :> 309798 @@
        "Pier 5" :> 309796 @@ "Pier 6" :> 309795 @@ "Pier 7 (Anchorage)" :> 309795 @@ "Pier 8" :> 309795 @@
        "Pier 9 (Tower)" :> 309794 @@ "Pier 10 (Tower)" :> 309794 @@ "Pier 11" :> 309793 @@ "Pier 12 (Anchorage)" :> 309793 @@
        "Pier 13" :> 309793 @@ "Pier 14" :> 309793 @@ "Pier 15" :> 309793 @@ "Pier 16" :> 309792 @@
        "Pier 17" :> 309792 @@ "Pier 18" :> 309792 @@ "Pier 19" :> 309791 @@ "Pier 20" :> 309790 @@
        "Test A" :> 309799 @@ "Test B" :> 309799 @@ "Test C" :> 309802 @@ "Test D" :> 309810 @@
        "Test E" :> 309780 @@ "Test H" :> 309808) @@
    <<0, -7639>> :> (
        "Pier 1" :> 359983 @@ "Pier 2" :> 359985 @@ "Pier 3" :> 359988 @@ "Pier 4" :> 359989 @@
        "Pier 5" :> 359993 @@ "Pier 6" :> 359996 @@ "Pier 7 (Anchorage)" :> 2 @@ "Pier 8" :> 3 @@
        "Pier 9 (Tower)" :> 6 @@ "Pier 10 (Tower)" :> 12 @@ "Pier 11" :> 15 @@ "Pier 12 (Anchorage)" :> 17 @@
        "Pier 13" :> 19 @@ "Pier 14" :> 22 @@ "Pier 15" :> 24 @@ "Pier 16" :> 26 @@
        "Pier 17" :> 28 @@ "Pier 18" :> 35 @@ "Pier 19" :> 42 @@ "Pier 20" :> 54 @@
        "Test A" :> 359987 @@ "Test B" :> 359987 @@ "Test C" :> 24 @@ "Test D" :> 0 @@
        "Test E" :> 0 @@ "Test H" :> 0) @@
    <<3897, 0>> :> (
        "Pier 1" :> 296371 @@ "Pier 2" :> 296368 @@ "Pier 3" :> 296363 @@ "Pier 4" :> 296361 @@
        "Pier 5" :> 296357 @@ "Pier 6" :> 296355 @@ "Pier 7 (Anchorage)" :> 296352 @@ "Pier 8" :> 296351 @@
        "Pier 9 (Tower)" :> 296350 @@ "Pier 10 (Tower)" :> 296346 @@ "Pier 11" :> 296345 @@ "Pier 12 (Anchorage)" :> 296344 @@
        "Pier 13" :> 296343 @@ "Pier 14" :> 296341 @@ "Pier 15" :> 296340 @@ "Pier 16" :> 296339 @@
        "Pier 17" :> 296338 @@ "Pier 18" :> 296334 @@ "Pier 19" :> 296330 @@ "Pier 20" :> 296324 @@
        "Test A" :> 296362 @@ "Test B" :> 296362 @@ "Test C" :> 296350 @@ "Test D" :> 296369 @@
        "Test E" :> 296337 @@ "Test H" :> 296367) @@
    <<3897, -7639>> :> (
        "Pier 1" :> 344523 @@ "Pier 2" :> 345115 @@ "Pier 3" :> 346683 @@ "Pier 4" :> 347408 @@
        "Pier 5" :> 351859 @@ "Pier 6" :> 354852 @@ "Pier 7 (Anchorage)" :> 2979 @@ "Pier 8" :> 5212 @@
        "Pier 9 (Tower)" :> 9427 @@ "Pier 10 (Tower)" :> 19832 @@ "Pier 11" :> 24112 @@ "Pier 12 (Anchorage)" :> 26995 @@
        "Pier 13" :> 30407 @@ "Pier 14" :> 34000 @@ "Pier 15" :> 36833 @@ "Pier 16" :> 40155 @@
        "Pier 17" :> 42769 @@ "Pier 18" :> 50361 @@ "Pier 19" :> 57661 @@ "Pier 20" :> 66938 @@
        "Test A" :> 345477 @@ "Test B" :> 345477 @@ "Test C" :> 27387 @@ "Test D" :> 0 @@
        "Test E" :> 0 @@ "Test H" :> 0) @@
    <<3898, 0>> :> (
        "Pier 1" :> 296365 @@ "Pier 2" :> 296363 @@ "Pier 3" :> 296357 @@ "Pier 4" :> 296355 @@
        "Pier 5" :> 296351 @@ "Pier 6" :> 296350 @@ "Pier 7 (Anchorage)" :> 296346 @@ "Pier 8" :> 296346 @@
        "Pier 9 (Tower)" :> 296344 @@ "Pier 10 (Tower)" :> 296341 @@ "Pier 11" :> 296339 @@ "Pier 12 (Anchorage)" :> 296338 @@
        "Pier 13" :> 296337 @@ "Pier 14" :> 296336 @@ "Pier 15" :> 296334 @@ "Pier 16" :> 296333 @@
        "Pier 17" :> 296332 @@ "Pier 18" :> 296329 @@ "Pier 19" :> 296325 @@ "Pier 20" :> 296318 @@
        "Test A" :> 296357 @@ "Test B" :> 296357 @@ "Test C" :> 296344 @@ "Test D" :> 296363 @@
        "Test E" :> 296331 @@ "Test H" :> 296362) @@
    <<3898, -7639>> :> (
        "Pier 1" :> 339161 @@ "Pier 2" :> 339526 @@ "Pier 3" :> 340622 @@ "Pier 4" :> 341282 @@
        "Pier 5" :> 347107 @@ "Pier 6" :> 351651 @@ "Pier 7 (Anchorage)" :> 4994 @@ "Pier 8" :> 8765 @@
        "Pier 9 (Tower)" :> 15946 @@ "Pier 10 (Tower)" :> 32910 @@ "Pier 11" :> 39283 @@ "Pier 12 (Anchorage)" :> 43382 @@
        "Pier 13" :> 47876 @@ "Pier 14" :> 52337 @@ "Pier 15" :> 55678 @@ "Pier 16" :> 59327 @@
        "Pier 17" :> 62033 @@ "Pier 18" :> 69359 @@ "Pier 19" :> 75452 @@ "Pier 20" :> 82292 @@
        "Test A" :> 338765 @@ "Test B" :> 338765 @@ "Test C" :> 37850 @@ "Test D" :> 0 @@
        "Test E" :> 0 @@ "Test H" :> 0) @@
    <<3900, 0>> :> (
        "Pier 1" :> 296354 @@ "Pier 2" :> 296351 @@ "Pier 3" :> 296346 @@ "Pier 4" :> 296344 @@
        "Pier 5" :> 296340 @@ "Pier 6" :> 296338 @@ "Pier 7 (Anchorage)" :> 296335 @@ "Pier 8" :> 296334 @@
        "Pier 9 (Tower)" :> 296333 @@ "Pier 10 (Tower)" :> 296329 @@ "Pier 11" :> 296328 @@ "Pier 12 (Anchorage)" :> 296327 @@
        "Pier 13" :> 296325 @@ "Pier 14" :> 296324 @@ "Pier 15" :> 296323 @@ "Pier 16" :> 296322 @@
        "Pier 17" :> 296321 @@ "Pier 18" :> 296317 @@ "Pier 19" :> 296313 @@ "Pier 20" :> 296307 @@
        "Test A" :> 296345 @@ "Test B" :> 296345 @@ "Test C" :> 296333 @@ "Test D" :> 296352 @@
        "Test E" :> 296320 @@ "Test H" :> 296350) @@
    <<3900, -7639>> :> (
        "Pier 1" :> 303355 @@ "Pier 2" :> 297048 @@ "Pier 3" :> 274558 @@ "Pier 4" :> 264306 @@
        "Pier 5" :> 228801 @@ "Pier 6" :> 209632 @@ "Pier 7 (Anchorage)" :> 166297 @@ "Pier 8" :> 157944 @@
        "Pier 9 (Tower)" :> 147092 @@ "Pier 10 (Tower)" :> 132301 @@ "Pier 11" :> 128696 @@ "Pier 12 (Anchorage)" :> 126931 @@
        "Pier 13" :> 124796 @@ "Pier 14" :> 123008 @@ "Pier 15" :> 121884 @@ "Pier 16" :> 120586 @@
        "Pier 17" :> 119649 @@ "Pier 18" :> 117777 @@ "Pier 19" :> 115999 @@ "Pier 20" :> 114012 @@
        "Test A" :> 270003 @@ "Test B" :> 270003 @@ "Test C" :> 89993 @@ "Test D" :> 0 @@
        "Test E" :> 180000 @@ "Test H" :> 0)

\* coefficient * length_m ** exponent in tonnes, by <<100 * coefficient,
\* 100 * exponent>> and length_m
PowerLawTable ==
    <<50, 250>> :> (50 :> 8839 @@ 100 :> 50000 @@ 150 :> 137784) @@
    <<40, 240>> :> (50 :> 4782 @@ 100 :> 25239 @@ 150 :> 66786) @@
    <<45, 245>> :> (50 :> 6542 @@ 100 :> 35745 @@ 150 :> 96525) @@
    <<25, 230>> :> (50 :> 2022 @@ 100 :> 9953 @@ 150 :> 25291) @@
    <<60, 220>> :> (50 :> 3281 @@ 100 :> 15072 @@ 150 :> 36775) @@
    <<30, 210>> :> (50 :> 1110 @@ 100 :> 4755 @@ 150 :> 11141) @@
    <<35, 230>> :> (50 :> 2830 @@ 100 :> 13934 @@ 150 :> 35407)

\* the positions and piers whose bearing is a whole number of units
WholeBearings ==
    {<<<<0, -7639>>, "Test D">>,
     <<<<0, -7639>>, "Test E">>,
     <<<<0, -7639>>, "Test H">>,
     <<<<3897, -7639>>, "Test D">>,
     <<<<3897, -7639>>, "Test E">>,
     <<<<3897, -7639>>, "Test H">>,
     <<<<3898, -7639>>, "Test D">>,
     <<<<3898, -7639>>, "Test E">>,
     <<<<3898, -7639>>, "Test H">>,
     <<<<3900, -7639>>, "Test D">>,
     <<<<3900, -7639>>, "Test E">>,
     <<<<3900, -7639>>, "Test H">>}

\* calculate_aashto_impact_force(mass, knots) in kN, by the mass in tonnes
\* rounded up (the masses of PowerLawTable) and knots + 1, for 0 to 14 knots
ImpactForceTable ==
    1110 :> <<0, 97, 391, 880, 1565, 2445, 3521, 4793, 6260, 7923, 9782, 11836, 14086, 16532, 19173>> @@
    2022 :> <<0, 178, 713, 1604, 2852, 4456, 6417, 8734, 11408, 14438, 17825, 21569, 25669, 30125, 34938>> @@
    2830 :> <<0, 249, 998, 2246, 3993, 6239, 8984, 12228, 15972, 20214, 24956, 30197, 35937, 42176, 48914>> @@
    3281 :> <<0, 289, 1157, 2603, 4628, 7232, 10415, 14176, 18515, 23434, 28931, 35006, 41660, 48893, 56705>> @@
    4755 :> <<0, 419, 1677, 3774, 6709, 10484, 15097, 20549, 26839, 33969, 41937, 50744, 60389, 70874, 82197>> @@
    4782 :> <<0, 421, 1687, 3795, 6748, 10544, 15183, 20666, 26992, 34162, 42176, 51033, 60733, 71277, 82665>> @@
    6542 :> <<0, 576, 2307, 5192, 9231, 14424, 20771, 28272, 36927, 46736, 57699, 69816, 83086, 97511, 113090>> @@
    8839 :> <<0, 779, 3118, 7016, 12473, 19490, 28065, 38200, 49894, 63148, 77960, 94332, 112263, 131753, 152802>> @@
    9953 :> <<0, 877, 3511, 7900, 14045, 21946, 31602, 43014, 56182, 71105, 87785, 106219, 126410, 148356, 172058>> @@
    11141 :> <<0, 982, 3930, 8843, 15722, 24565, 35374, 48149, 62888, 79593, 98263, 118899, 141499, 166065, 192597>> @@
    13934 :> <<0, 1228, 4915, 11060, 19663, 30724, 44243, 60220, 78655, 99548, 122899, 148707, 176974, 207699, 240882>> @@
    15072 :> <<0, 1329, 5317, 11963, 21269, 33233, 47855, 65137, 85076, 107675, 132932, 160848, 191423, 224656, 260548>> @@
    25239 :> <<0, 2226, 8904, 20034, 35617, 55651, 80138, 109077, 142469, 180312, 222607, 269355, 320555, 376207, 436311>> @@
    25291 :> <<0, 2230, 8922, 20075, 35690, 55766, 80303, 109301, 142761, 180682, 223064, 269908, 321212, 376979, 437206>> @@
    35407 :> <<0, 3122, 12491, 28106, 49966, 78072, 112424, 153022, 199865, 252955, 312290, 377871, 449698, 527770, 612089>> @@
    35745 :> <<0, 3152, 12611, 28374, 50444, 78819, 113499, 154486, 201777, 255374, 315277, 381485, 453999, 532819, 617944>> @@
    36775 :> <<0, 3243, 12974, 29192, 51898, 81091, 116771, 158938, 207592, 262734, 324364, 392480, 467084, 548175, 635753>> @@
    50000 :> <<0, 4410, 17640, 39691, 70561, 110253, 158764, 216096, 282247, 357219, 441012, 533624, 635057, 745310, 864384>> @@
    66786 :> <<0, 5890, 23562, 53015, 94249, 147265, 212061, 288639, 376998, 477138, 589060, 712762, 848246, 995511, 1154557>> @@
    96525 :> <<0, 8513, 34054, 76623, 136218, 212841, 306492, 417169, 544874, 689607, 851366, 1030153, 1225968, 1438810, 1668679>> @@
    137784 :> <<0, 12152, 48611, 109375, 194445, 303821, 437503, 595490, 777783, 984382, 1215286, 1470497, 1750013, 2053834, 2381962>>

\* min_distance / sog * 60 in 1e-3 minute, by the distance in 1e-5 nm rounded
\* down (the distances of HaversineTable) and the speed, for 1 to 14 knots
TimeTable ==
    0 :> <<0, 0, 0, 0, 0, 0, 0, 0, 0, 0, 0, 0, 0, 0>> @@
    28331 :> <<16999, 8499, 5666, 4249, 3399, 2833, 2428, 2124, 1888, 1699, 1545, 1416, 1307, 1214>> @@
    30431 :> <<18258, 9129, 6086, 4564, 3651, 3043, 2608, 2282, 2028, 1825, 1659, 1521, 1404, 1304>> @@
    32613 :> <<19567, 9783, 6522, 4891, 3913, 3261, 2795, 2445, 2174, 1956, 1778, 1630, 1505, 1397>> @@
    35716 :> <<21430, 10715, 7143, 5357, 4286, 3571, 3061, 2678, 2381, 2143, 1948, 1785, 1648, 1530>> @@
    39550 :> <<23730, 11865, 7910, 5932, 4746, 3955, 3390, 2966, 2636, 2373, 2157, 1977, 1825, 1695>> @@
    43590 :> <<26154, 13077, 8718, 6538, 5230, 4359, 3736, 3269, 2906, 2615, 2377, 2179, 2011, 1868>> @@
    43810 :> <<26286, 13143, 8762, 6571, 5257, 4381, 3755, 3285, 2920, 2628, 2389, 2190, 2022, 1877>> @@
    46660 :> <<27996, 13998, 9332, 6999, 5599, 4666, 3999, 3499, 3110, 2799, 2545, 2333, 2153, 1999>> @@
    50000 :> <<30000, 15000, 10000, 7500, 6000, 5000, 4285, 3750, 3333, 3000, 2727, 2500, 2307, 2142>> @@
    60040 :> <<36024, 18012, 12008, 9006, 7204, 6004, 5146, 4503, 4002, 3602, 3274, 3002, 2771, 2573>> @@
    62195 :> <<37317, 18658, 12439, 9329, 7463, 6219, 5331, 4664, 4146, 3731, 3392, 3109, 2870, 2665>> @@
    66130 :> <<39678, 19839, 13226, 9919, 7935, 6613, 5668, 4959, 4408, 3967, 3607, 3306, 3052, 2834>> @@
    73015 :> <<43809, 21904, 14603, 10952, 8761, 7301, 6258, 5476, 4867, 4380, 3982, 3650, 3369, 3129>> @@
    76033 :> <<45620, 22810, 15206, 11405, 9124, 7603, 6517, 5702, 5068, 4562, 4147, 3801, 3509, 3258>> @@
    83004 :> <<49802, 24901, 16600, 12450, 9960, 8300, 7114, 6225, 5533, 4980, 4527, 4150, 3830, 3557>> @@
    86634 :> <<51980, 25990, 17326, 12995, 10396, 8663, 7425, 6497, 5775, 5198, 4725, 4331, 3998, 3712>> @@
    88005 :> <<52803, 26401, 17601, 13200, 10560, 8800, 7543, 6600, 5867, 5280, 4800, 4400, 4061, 3771>> @@
    88732 :> <<53239, 26619, 17746, 13309, 10647, 8873, 7605, 6654, 5915, 5323, 4839, 4436, 4095, 3802>> @@
    90020 :> <<54012, 27006, 18004, 13503, 10802, 9002, 7716, 6751, 6001, 5401, 4910, 4501, 4154, 3858>> @@
    91437 :> <<54862, 27431, 18287, 13715, 10972, 9143, 7837, 6857, 6095, 5486, 4987, 4571, 4220, 3918>> @@
    93320 :> <<55992, 27996, 18664, 13998, 11198, 9332, 7998, 6999, 6221, 5599, 5090, 4666, 4307, 3999>> @@
    93724 :> <<56234, 28117, 18744, 14058, 11246, 9372, 8033, 7029, 6248, 5623, 5112, 4686, 4325, 4016>> @@
    96476 :> <<57886, 28943, 19295, 14471, 11577, 9647, 8269, 7235, 6431, 5788, 5262, 4823, 4452, 4134>> @@
    96599 :> <<57959, 28979, 19319, 14489, 11591, 9659, 8279, 7244, 6439, 5795, 5269, 4829, 4458, 4139>> @@
    100737 :> <<60442, 30221, 20147, 15110, 12088, 10073, 8634, 7555, 6715, 6044, 5494, 5036, 4649, 4317>> @@
    101235 :> <<60741, 30370, 20247, 15185, 12148, 10123, 8677, 7592, 6749, 6074, 5521, 5061, 4672, 4338>> @@
    102623 :> <<61574, 30787, 20524, 15393, 12314, 10262, 8796, 7696, 6841, 6157, 5597, 5131, 4736, 4398>> @@
    106714 :> <<64028, 32014, 21342, 16007, 12805, 10671, 9146, 8003, 7114, 6402, 5820, 5335, 4925, 4573>> @@
    108386 :> <<65031, 32515, 21677, 16257, 13006, 10838, 9290, 8128, 7225, 6503, 5911, 5419, 5002, 4645>> @@
    111433 :> <<66860, 33430, 22286, 16715, 13372, 11143, 9551, 8357, 7428, 6686, 6078, 5571, 5143, 4775>> @@
    117792 :> <<70675, 35337, 23558, 17668, 14135, 11779, 10096, 8834, 7852, 7067, 6425, 5889, 5436, 5048>> @@
    117897 :> <<70738, 35369, 23579, 17684, 14147, 11789, 10105, 8842, 7859, 7073, 6430, 5894, 5441, 5052>> @@
    120080 :> <<72048, 36024, 24016, 18012, 14409, 12008, 10292, 9006, 8005, 7204, 6549, 6004, 5542, 5146>> @@
    122643 :> <<73585, 36792, 24528, 18396, 14717, 12264, 10512, 9198, 8176, 7358, 6689, 6132, 5660, 5256>> @@
    123577 :> <<74146, 37073, 24715, 18536, 14829, 12357, 10592, 9268, 8238, 7414, 6740, 6178, 5703, 5296>> @@
    125590 :> <<75354, 37677, 25118, 18838, 15070, 12559, 10764, 9419, 8372, 7535, 6850, 6279, 5796, 5382>> @@
    128830 :> <<77298, 38649, 25766, 19324, 15459, 12883, 11042, 9662, 8588, 7729, 7027, 6441, 5946, 5521>> @@
    130964 :> <<78578, 39289, 26192, 19644, 15715, 13096, 11225, 9822, 8730, 7857, 7143, 6548, 6044, 5612>> @@
    142033 :> <<85220, 42610, 28406, 21305, 17044, 14203, 12174, 10652, 9468, 8522, 7747, 7101, 6555, 6087>> @@
    144164 :> <<86498, 43249, 28832, 21624, 17299, 14416, 12356, 10812, 9610, 8649, 7863, 7208, 6653, 6178>> @@
    145260 :> <<87156, 43578, 29052, 21789, 17431, 14526, 12450, 10894, 9684, 8715, 7923, 7263, 6704, 6225>> @@
    145303 :> <<87182, 43591, 29060, 21795, 17436, 14530, 12454, 10897, 9686, 8718, 7925, 7265, 6706, 6227>> @@
    146173 :> <<87704, 43852, 29234, 21926, 17540, 14617, 12529, 10963, 9744, 8770, 7973, 7308, 6746, 6264>> @@
    147628 :> <<88577, 44288, 29525, 22144, 17715, 14762, 12653, 11072, 9841, 8857, 8052, 7381, 6813, 6326>> @@
    148348 :> <<89009, 44504, 29669, 22252, 17801, 14834, 12715, 11126, 9889, 8900, 8091, 7417, 6846, 6357>> @@
    148637 :> <<89182, 44591, 29727, 22295, 17836, 14863, 12740, 11147, 9909, 8918, 8107, 7431, 6860, 6370>> @@
    150228 :> <<90137, 45068, 30045, 22534, 18027, 15022, 12876, 11267, 10015, 9013, 8194, 7511, 6933, 6438>> @@
    151070 :> <<90642, 45321, 30214, 22660, 18128, 15107, 12948, 11330, 10071, 9064, 8240, 7553, 6972, 6474>> @@
    152087 :> <<91252, 45626, 30417, 22813, 18250, 15208, 13036, 11406, 10139, 9125, 8295, 7604, 7019, 6518>> @@
    153515 :> <<92109, 46054, 30703, 23027, 18421, 15351, 13158, 11513, 10234, 9210, 8373, 7675, 7085, 6579>> @@
    156124 :> <<93674, 46837, 31224, 23418, 18734, 15612, 13382, 11709, 10408, 9367, 8515, 7806, 7205, 6691>> @@
    157247 :> <<94348, 47174, 31449, 23587, 18869, 15724, 13478, 11793, 10483, 9434, 8577, 7862, 7257, 6739>> @@
    158367 :> <<95020, 47510, 31673, 23755, 19004, 15836, 13574, 11877, 10557, 9502, 8638, 7918, 7309, 6787>> @@
    160733 :> <<96440, 48220, 32146, 24110, 19288, 16073, 13777, 12055, 10715, 9644, 8767, 8036, 7418, 6888>> @@
    161706 :> <<97023, 48511, 32341, 24255, 19404, 16170, 13860, 12127, 10780, 9702, 8820, 8085, 7463, 6930>> @@
    166024 :> <<99614, 49807, 33204, 24903, 19922, 16602, 14230, 12451, 11068, 9961, 9055, 8301, 7662, 7115>> @@
    170080 :> <<102048, 51024, 34016, 25512, 20409, 17008, 14578, 12756, 11338, 10204, 9277, 8504, 7849, 7289>> @@
    171441 :> <<102864, 51432, 34288, 25716, 20572, 17144, 14694, 12858, 11429, 10286, 9351, 8572, 7912, 7347>> @@
    172600 :> <<103560, 51780, 34520, 25890, 20712, 17260, 14794, 12945, 11506, 10356, 9414, 8630, 7966, 7397>> @@
    178795 :> <<107277, 53638, 35759, 26819, 21455, 17879, 15325, 13409, 11919, 10727, 9752, 8939, 8252, 7662>> @@
    180121 :> <<108072, 54036, 36024, 27018, 21614, 18012, 15438, 13509, 12008, 10807, 9824, 9006, 8313, 7719>> @@
    180539 :> <<108323, 54161, 36107, 27080, 21664, 18053, 15474, 13540, 12035, 10832, 9847, 9026, 8332, 7737>> @@
    186069 :> <<111641, 55820, 37213, 27910, 22328, 18606, 15948, 13955, 12404, 11164, 10149, 9303, 8587, 7974>> @@
    188658 :> <<113194, 56597, 37731, 28298, 22638, 18865, 16170, 14149, 12577, 11319, 10290, 9432, 8707, 8085>> @@
    190202 :> <<114121, 57060, 38040, 28530, 22824, 19020, 16303, 14265, 12680, 11412, 10374, 9510, 8778, 8151>> @@
    202869 :> <<121721, 60860, 40573, 30430, 24344, 20286, 17388, 15215, 13524, 12172, 11065, 10143, 9363, 8694>> @@
    208627 :> <<125176, 62588, 41725, 31294, 25035, 20862, 17882, 15647, 13908, 12517, 11379, 10431, 9628, 8941>> @@
    215640 :> <<129384, 64692, 43128, 32346, 25876, 21564, 18483, 16173, 14376, 12938, 11762, 10782, 9952, 9241>> @@
    224699 :> <<134819, 67409, 44939, 33704, 26963, 22469, 19259, 16852, 14979, 13481, 12256, 11234, 10370, 9629>> @@
    226330 :> <<135798, 67899, 45266, 33949, 27159, 22633, 19399, 16974, 15088, 13579, 12345, 11316, 10446, 9699>> @@
    228554 :> <<137132, 68566, 45710, 34283, 27426, 22855, 19590, 17141, 15236, 13713, 12466, 11427, 10548, 9795>> @@
    230121 :> <<138072, 69036, 46024, 34518, 27614, 23012, 19724, 17259, 15341, 13807, 12552, 11506, 10620, 9862>> @@
    240161 :> <<144097, 72048, 48032, 36024, 28819, 24016, 20585, 18012, 16010, 14409, 13099, 12008, 11084, 10292>> @@
    234037715 :> <<140422629, 70211314, 46807543, 35105657, 28084525, 23403771, 20060375, 17552828, 15602514, 14042262, 12765693, 11701885, 10801740, 10030187>> @@
    234065771 :> <<140439462, 70219731, 46813154, 35109865, 28087892, 23406577, 20062780, 17554932, 15604384, 14043946, 12767223, 11703288, 10803035, 10031390>> @@
    234079465 :> <<140447679, 70223839, 46815893, 35111919, 28089535, 23407946, 20063954, 17555959, 15605297, 14044767, 12767970, 11703973, 10803667, 10031977>> @@
    234087816 :> <<140452689, 70226344, 46817563, 35113172, 28090537, 23408781, 20064669, 17556586, 15605854, 14045268, 12768426, 11704390, 10804053, 10032334>> @@
    234095689 :> <<140457413, 70228706, 46819137, 35114353, 28091482, 23409568, 20065344, 17557176, 15606379, 14045741, 12768855, 11704784, 10804416, 10032672>> @@
    234097877 :> <<140458726, 70229363, 46819575, 35114681, 28091745, 23409787, 20065532, 17557340, 15606525, 14045872, 12768975, 11704893, 10804517, 10032766>> @@
    234100561 :> <<140460336, 70230168, 46820112, 35115084, 28092067, 23410056, 20065762, 17557542, 15606704, 14046033, 12769121, 11705028, 10804641, 10032881>> @@
    234102931 :> <<140461758, 70230879, 46820586, 35115439, 28092351, 23410293, 20065965, 17557719, 15606862, 14046175, 12769250, 11705146, 10804750, 10032982>> @@
    234105627 :> <<140463376, 70231688, 46821125, 35115844, 28092675, 23410562, 20066196, 17557922, 15607041, 14046337, 12769397, 11705281, 10804875, 10033098>> @@
    234107930 :> <<140464758, 70232379, 46821586, 35116189, 28092951, 23410793, 20066394, 17558094, 15607195, 14046475, 12769523, 11705396, 10804981, 10033197>> @@
    234110267 :> <<140466160, 70233080, 46822053, 35116540, 28093232, 23411026, 20066594, 17558270, 15607351, 14046616, 12769650, 11705513, 10805089, 10033297>> @@
    234113293 :> <<140467976, 70233988, 46822658, 35116994, 28093595, 23411329, 20066853, 17558497, 15607552, 14046797, 12769816, 11705664, 10805228, 10033426>> @@
    234121017 :> <<140472610, 70236305, 46824203, 35118152, 28094522, 23412101, 20067515, 17559076, 15608067, 14047261, 12770237, 11706050, 10805585, 10033757>> @@
    234124693 :> <<140474816, 70237408, 46824938, 35118704, 28094963, 23412469, 20067830, 17559352, 15608312, 14047481, 12770437, 11706234, 10805755, 10033915>> @@
    234126112 :> <<140475667, 70237833, 46825222, 35118916, 28095133, 23412611, 20067952, 17559458, 15608407, 14047566, 12770515, 11706305, 10805820, 10033976>> @@
    234133170 :> <<140479902, 70239951, 46826634, 35119975, 28095980, 23413317, 20068557, 17559987, 15608878, 14047990, 12770900, 11706658, 10806146, 10034278>> @@
    234137753 :> <<140482652, 70241326, 46827550, 35120663, 28096530, 23413775, 20068950, 17560331, 15609183, 14048265, 12771150, 11706887, 10806357, 10034475>> @@
    234153875 :> <<140492325, 70246162, 46830775, 35123081, 28098465, 23415387, 20070332, 17561540, 15610258, 14049232, 12772029, 11707693, 10807101, 10035166>> @@
    234157803 :> <<140494681, 70247340, 46831560, 35123670, 28098936, 23415780, 20070668, 17561835, 15610520, 14049468, 12772243, 11707890, 10807283, 10035334>> @@
    234157822 :> <<140494693, 70247346, 46831564, 35123673, 28098938, 23415782, 20070670, 17561836, 15610521, 14049469, 12772244, 11707891, 10807284, 10035335>> @@
    234161264 :> <<140496758, 70248379, 46832252, 35124189, 28099351, 23416126, 20070965, 17562094, 15610750, 14049675, 12772432, 11708063, 10807442, 10035482>> @@
    234186085 :> <<140511651, 70255825, 46837217, 35127912, 28102330, 23418608, 20073093, 17563956, 15612405, 14051165, 12773786, 11709304, 10808588, 10036546>> @@
    234197949 :> <<140518769, 70259384, 46839589, 35129692, 28103753, 23419794, 20074109, 17564846, 15613196, 14051876, 12774433, 11709897, 10809136, 10037054>> @@
    234207796 :> <<140524678, 70262339, 46841559, 35131169, 28104935, 23420779, 20074954, 17565584, 15613853, 14052467, 12774970, 11710389, 10809590, 10037477>> @@
    234217837 :> <<140530702, 70265351, 46843567, 35132675, 28106140, 23421783, 20075814, 17566337, 15614522, 14053070, 12775518, 11710891, 10810054, 10037907>> @@
    344736374 :> <<206841824, 103420912, 68947274, 51710456, 41368364, 34473637, 29548832, 25855228, 22982424, 20684182, 18803802, 17236818, 15910909, 14774416>> @@
    344771535 :> <<206862921, 103431460, 68954307, 51715730, 41372584, 34477153, 29551845, 25857865, 22984769, 20686292, 18805720, 17238576, 15912532, 14775922>> @@
    344789603 :> <<206873761, 103436880, 68957920, 51718440, 41374752, 34478960, 29553394, 25859220, 22985973, 20687376, 18806705, 17239480, 15913366, 14776697>> @@
    344792718 :> <<206875631, 103437815, 68958543, 51718907, 41375126, 34479271, 29553661, 25859453, 22986181, 20687563, 18806875, 17239635, 15913510, 14776830>> @@
    344797120 :> <<206878272, 103439136, 68959424, 51719568, 41375654, 34479712, 29554038, 25859784, 22986474, 20687827, 18807115, 17239856, 15913713, 14777019>> @@
    344810517 :> <<206886310, 103443155, 68962103, 51721577, 41377262, 34481051, 29555187, 25860788, 22987367, 20688631, 18807846, 17240525, 15914331, 14777593>> @@
    344816225 :> <<206889735, 103444867, 68963245, 51722433, 41377947, 34481622, 29555676, 25861216, 22987748, 20688973, 18808157, 17240811, 15914595, 14777838>> @@
    344816484 :> <<206889890, 103444945, 68963296, 51722472, 41377978, 34481648, 29555698, 25861236, 22987765, 20688989, 18808171, 17240824, 15914606, 14777849>> @@
    344823689 :> <<206894213, 103447106, 68964737, 51723553, 41378842, 34482368, 29556316, 25861776, 22988245, 20689421, 18808564, 17241184, 15914939, 14778158>> @@
    344824776 :> <<206894865, 103447432, 68964955, 51723716, 41378973, 34482477, 29556409, 25861858, 22988318, 20689486, 18808624, 17241238, 15914989, 14778204>> @@
    344829405 :> <<206897643, 103448821, 68965881, 51724410, 41379528, 34482940, 29556806, 25862205, 22988627, 20689764, 18808876, 17241470, 15915203, 14778403>> @@
    344836622 :> <<206901973, 103450986, 68967324, 51725493, 41380394, 34483662, 29557424, 25862746, 22989108, 20690197, 18809270, 17241831, 15915536, 14778712>> @@
    344843428 :> <<206906056, 103453028, 68968685, 51726514, 41381211, 34484342, 29558008, 25863257, 22989561, 20690605, 18809641, 17242171, 15915850, 14779004>> @@
    344845966 :> <<206907580, 103453790, 68969193, 51726895, 41381516, 34484596, 29558225, 25863447, 22989731, 20690758, 18809780, 17242298, 15915967, 14779112>> @@
    344848669 :> <<206909201, 103454600, 68969733, 51727300, 41381840, 34484866, 29558457, 25863650, 22989911, 20690920, 18809927, 17242433, 15916092, 14779228>> @@
    344850398 :> <<206910238, 103455119, 68970079, 51727559, 41382047, 34485039, 29558605, 25863779, 22990026, 20691023, 18810021, 17242519, 15916172, 14779302>> @@
    344851404 :> <<206910842, 103455421, 68970280, 51727710, 41382168, 34485140, 29558691, 25863855, 22990093, 20691084, 18810076, 17242570, 15916218, 14779345>> @@
    344854114 :> <<206912468, 103456234, 68970822, 51728117, 41382493, 34485411, 29558924, 25864058, 22990274, 20691246, 18810224, 17242705, 15916343, 14779462>> @@
    344856673 :> <<206914004, 103457002, 68971334, 51728501, 41382800, 34485667, 29559143, 25864250, 22990444, 20691400, 18810364, 17242833, 15916461, 14779571>> @@
    344858568 :> <<206915141, 103457570, 68971713, 51728785, 41383028, 34485856, 29559305, 25864392, 22990571, 20691514, 18810467, 17242928, 15916549, 14779652>> @@
    344863772 :> <<206918263, 103459131, 68972754, 51729565, 41383652, 34486377, 29559751, 25864782, 22990918, 20691826, 18810751, 17243188, 15916789, 14779875>> @@
    344869741 :> <<206921844, 103460922, 68973948, 51730461, 41384368, 34486974, 29560263, 25865230, 22991316, 20692184, 18811076, 17243487, 15917064, 14780131>> @@
    344872598 :> <<206923559, 103461779, 68974519, 51730889, 41384711, 34487259, 29560508, 25865444, 22991506, 20692355, 18811232, 17243629, 15917196, 14780254>> @@
    344875745 :> <<206925447, 103462723, 68975149, 51731361, 41385089, 34487574, 29560778, 25865680, 22991716, 20692544, 18811404, 17243787, 15917342, 14780389>> @@
    344876948 :> <<206926169, 103463084, 68975389, 51731542, 41385233, 34487694, 29560881, 25865771, 22991796, 20692616, 18811469, 17243847, 15917397, 14780440>> @@
    344877045 :> <<206926227, 103463113, 68975409, 51731556, 41385245, 34487704, 29560889, 25865778, 22991803, 20692622, 18811475, 17243852, 15917402, 14780444>> @@
    344882666 :> <<206929599, 103464799, 68976533, 51732399, 41385919, 34488266, 29561371, 25866199, 22992177, 20692959, 18811781, 17244133, 15917661, 14780685>> @@
    344883424 :> <<206930054, 103465027, 68976684, 51732513, 41386010, 34488342, 29561436, 25866256, 22992228, 20693005, 18811823, 17244171, 15917696, 14780718>> @@
    344887890 :> <<206932734, 103466367, 68977578, 51733183, 41386546, 34488789, 29561819, 25866591, 22992526, 20693273, 18812066, 17244394, 15917902, 14780909>> @@
    344889885 :> <<206933931, 103466965, 68977977, 51733482, 41386786, 34488988, 29561990, 25866741, 22992659, 20693393, 18812175, 17244494, 15917994, 14780995>> @@
    344890408 :> <<206934244, 103467122, 68978081, 51733561, 41386848, 34489040, 29562034, 25866780, 22992693, 20693424, 18812204, 17244520, 15918018, 14781017>> @@
    344896377 :> <<206937826, 103468913, 68979275, 51734456, 41387565, 34489637, 29562546, 25867228, 22993091, 20693782, 18812529, 17244818, 15918294, 14781273>> @@
    344896694 :> <<206938016, 103469008, 68979338, 51734504, 41387603, 34489669, 29562573, 25867252, 22993112, 20693801, 18812546, 17244834, 15918308, 14781286>> @@
    344901937 :> <<206941162, 103470581, 68980387, 51735290, 41388232, 34490193, 29563023, 25867645, 22993462, 20694116, 18812832, 17245096, 15918550, 14781511>> @@
    344903586 :> <<206942151, 103471075, 68980717, 51735537, 41388430, 34490358, 29563164, 25867768, 22993572, 20694215, 18812922, 17245179, 15918627, 14781582>> @@
    344904234 :> <<206942540, 103471270, 68980846, 51735635, 41388508, 34490423, 29563220, 25867817, 22993615, 20694254, 18812958, 17245211, 15918656, 14781610>> @@
    344907428 :> <<206944456, 103472228, 68981485, 51736114, 41388891, 34490742, 29563493, 25868057, 22993828, 20694445, 18813132, 17245371, 15918804, 14781746>> @@
    344909305 :> <<206945583, 103472791, 68981861, 51736395, 41389116, 34490930, 29563654, 25868197, 22993953, 20694558, 18813234, 17245465, 15918891, 14781827>> @@
    344909944 :> <<206945966, 103472983, 68981988, 51736491, 41389193, 34490994, 29563709, 25868245, 22993996, 20694596, 18813269, 17245497, 15918920, 14781854>> @@
    344910167 :> <<206946100, 103473050, 68982033, 51736525, 41389220, 34491016, 29563728, 25868262, 22994011, 20694610, 18813281, 17245508, 15918930, 14781864>> @@
    344911879 :> <<206947127, 103473563, 68982375, 51736781, 41389425, 34491187, 29563875, 25868390, 22994125, 20694712, 18813375, 17245593, 15919009, 14781937>> @@
    344916525 :> <<206949915, 103474957, 68983305, 51737478, 41389983, 34491652, 29564273, 25868739, 22994435, 20694991, 18813628, 17245826, 15919224, 14782136>> @@
    344917598 :> <<206950558, 103475279, 68983519, 51737639, 41390111, 34491759, 29564365, 25868819, 22994506, 20695055, 18813687, 17245879, 15919273, 14782182>> @@
    344917763 :> <<206950658, 103475329, 68983552, 51737664, 41390131, 34491776, 29564379, 25868832, 22994517, 20695065, 18813696, 17245888, 15919281, 14782189>> @@
    344917847 :> <<206950708, 103475354, 68983569, 51737677, 41390141, 34491784, 29564386, 25868838, 22994523, 20695070, 18813700, 17245892, 15919285, 14782193>> @@
    344918156 :> <<206950894, 103475447, 68983631, 51737723, 41390178, 34491815, 29564413, 25868861, 22994543, 20695089, 18813717, 17245907, 15919299, 14782206>> @@
    344922567 :> <<206953540, 103476770, 68984513, 51738385, 41390708, 34492256, 29564791, 25869192, 22994837, 20695354, 18813958, 17246128, 15919503, 14782395>> @@
    344923335 :> <<206954001, 103477000, 68984667, 51738500, 41390800, 34492333, 29564857, 25869250, 22994889, 20695400, 18814000, 17246166, 15919538, 14782428>> @@
    344928579 :> <<206957147, 103478573, 68985715, 51739286, 41391429, 34492857, 29565306, 25869643, 22995238, 20695714, 18814286, 17246428, 15919780, 14782653>> @@
    344929022 :> <<206957413, 103478706, 68985804, 51739353, 41391482, 34492902, 29565344, 25869676, 22995268, 20695741, 18814310, 17246451, 15919801, 14782672>> @@
    344934046 :> <<206960428, 103480214, 68986809, 51740107, 41392085, 34493404, 29565775, 25870053, 22995603, 20696042, 18814584, 17246702, 15920032, 14782887>> @@
    344934092 :> <<206960455, 103480227, 68986818, 51740113, 41392091, 34493409, 29565779, 25870056, 22995606, 20696045, 18814586, 17246704, 15920035, 14782889>> @@
    344936587 :> <<206961952, 103480976, 68987317, 51740488, 41392390, 34493658, 29565993, 25870244, 22995772, 20696195, 18814722, 17246829, 15920150, 14782996>> @@
    344936704 :> <<206962022, 103481011, 68987340, 51740505, 41392404, 34493670, 29566003, 25870252, 22995780, 20696202, 18814729, 17246835, 15920155, 14783001>> @@
    344938542 :> <<206963125, 103481562, 68987708, 51740781, 41392625, 34493854, 29566160, 25870390, 22995902, 20696312, 18814829, 17246927, 15920240, 14783080>> @@
    344941172 :> <<206964703, 103482351, 68988234, 51741175, 41392940, 34494117, 29566386, 25870587, 22996078, 20696470, 18814973, 17247058, 15920361, 14783193>> @@
    344955669 :> <<206973401, 103486700, 68991133, 51743350, 41394680, 34495566, 29567628, 25871675, 22997044, 20697340, 18815763, 17247783, 15921030, 14783814>> @@
    344957522 :> <<206974513, 103487256, 68991504, 51743628, 41394902, 34495752, 29567787, 25871814, 22997168, 20697451, 18815864, 17247876, 15921116, 14783893>> @@
    344963352 :> <<206978011, 103489005, 68992670, 51744502, 41395602, 34496335, 29568287, 25872251, 22997556, 20697801, 18816182, 17248167, 15921385, 14784143>> @@
    344963458 :> <<206978074, 103489037, 68992691, 51744518, 41395614, 34496345, 29568296, 25872259, 22997563, 20697807, 18816188, 17248172, 15921390, 14784148>> @@
    344967821 :> <<206980692, 103490346, 68993564, 51745173, 41396138, 34496782, 29568670, 25872586, 22997854, 20698069, 18816426, 17248391, 15921591, 14784335>> @@
    344970915 :> <<206982549, 103491274, 68994183, 51745637, 41396509, 34497091, 29568935, 25872818, 22998061, 20698254, 18816595, 17248545, 15921734, 14784467>> @@
    344971062 :> <<206982637, 103491318, 68994212, 51745659, 41396527, 34497106, 29568948, 25872829, 22998070, 20698263, 18816603, 17248553, 15921741, 14784474>> @@
    344971159 :> <<206982695, 103491347, 68994231, 51745673, 41396539, 34497115, 29568956, 25872836, 22998077, 20698269, 18816608, 17248557, 15921745, 14784478>> @@
    344971458 :> <<206982875, 103491437, 68994291, 51745718, 41396575, 34497145, 29568982, 25872859, 22998097, 20698287, 18816625, 17248572, 15921759, 14784491>> @@
    344975868 :> <<206985521, 103492760, 68995173, 51746380, 41397104, 34497586, 29569360, 25873190, 22998391, 20698552, 18816865, 17248793, 15921963, 14784680>> @@
    344984173 :> <<206990504, 103495252, 68996834, 51747626, 41398100, 34498417, 29570072, 25873813, 22998944, 20699050, 18817318, 17249208, 15922346, 14785036>> @@
    344987300 :> <<206992380, 103496190, 68997460, 51748095, 41398476, 34498730, 29570340, 25874047, 22999153, 20699238, 18817489, 17249365, 15922490, 14785170>> @@
    344990111 :> <<206994066, 103497033, 68998022, 51748516, 41398813, 34499011, 29570580, 25874258, 22999340, 20699406, 18817642, 17249505, 15922620, 14785290>> @@
    344997581 :> <<206998549, 103499274, 68999516, 51749637, 41399709, 34499758, 29571221, 25874818, 22999838, 20699854, 18818049, 17249879, 15922965, 14785610>> @@
    344997719 :> <<206998631, 103499315, 68999543, 51749657, 41399726, 34499771, 29571233, 25874828, 22999847, 20699863, 18818057, 17249885, 15922971, 14785616>> @@
    344997823 :> <<206998694, 103499347, 68999564, 51749673, 41399738, 34499782, 29571242, 25874836, 22999854, 20699869, 18818063, 17249891, 15922976, 14785621>> @@
    344998117 :> <<206998870, 103499435, 68999623, 51749717, 41399774, 34499811, 29571267, 25874858, 22999874, 20699887, 18818079, 17249905, 15922990, 14785633>> @@
    345002527 :> <<207001516, 103500758, 69000505, 51750379, 41400303, 34500252, 29571645, 25875189, 23000168, 20700151, 18818319, 17250126, 15923193, 14785822>> @@
    345013935 :> <<207008361, 103504180, 69002787, 51752090, 41401672, 34501393, 29572623, 25876045, 23000929, 20700836, 18818941, 17250696, 15923720, 14786311>> @@
    476880862 :> <<286128517, 143064258, 95376172, 71532129, 57225703, 47688086, 40875502, 35766064, 31792057, 28612851, 26011683, 23844043, 22009885, 20437751>> @@
    476928445 :> <<286157067, 143078533, 95385689, 71539266, 57231413, 47692844, 40879581, 35769633, 31795229, 28615706, 26014278, 23846422, 22012082, 20439790>> @@
    476957172 :> <<286174303, 143087151, 95391434, 71543575, 57234860, 47695717, 40882043, 35771787, 31797144, 28617430, 26015845, 23847858, 22013407, 20441021>> @@
    476981858 :> <<286189115, 143094557, 95396371, 71547278, 57237823, 47698185, 40884159, 35773639, 31798790, 28618911, 26017192, 23849092, 22014547, 20442079>> @@
    476989844 :> <<286193906, 143096953, 95397968, 71548476, 57238781, 47698984, 40884843, 35774238, 31799322, 28619390, 26017627, 23849492, 22014915, 20442421>> @@
    476999512 :> <<286199707, 143099853, 95399902, 71549926, 57239941, 47699951, 40885672, 35774963, 31799967, 28619970, 26018155, 23849975, 22015362, 20442836>> @@
    477006863 :> <<286204118, 143102059, 95401372, 71551029, 57240823, 47700686, 40886302, 35775514, 31800457, 28620411, 26018556, 23850343, 22015701, 20443151>> @@
    477007338 :> <<286204403, 143102201, 95401467, 71551100, 57240880, 47700733, 40886343, 35775550, 31800489, 28620440, 26018582, 23850366, 22015723, 20443171>> @@
    477017028 :> <<286210217, 143105108, 95403405, 71552554, 57242043, 47701702, 40887173, 35776277, 31801135, 28621021, 26019110, 23850851, 22016170, 20443586>> @@
    477026012 :> <<286215607, 143107803, 95405202, 71553901, 57243121, 47702601, 40887943, 35776950, 31801734, 28621560, 26019600, 23851300, 22016585, 20443971>> @@
    477033292 :> <<286219975, 143109987, 95406658, 71554993, 57243995, 47703329, 40888567, 35777496, 31802219, 28621997, 26019997, 23851664, 22016921, 20444283>> @@
    477044061 :> <<286226436, 143113218, 95408812, 71556609, 57245287, 47704406, 40889490, 35778304, 31802937, 28622643, 26020585, 23852203, 22017418, 20444745>> @@
    477070048 :> <<286242028, 143121014, 95414009, 71560507, 57248405, 47707004, 40891718, 35780253, 31804669, 28624202, 26022002, 23853502, 22018617, 20445859>> @@
    477080873 :> <<286248523, 143124261, 95416174, 71562130, 57249704, 47708087, 40892646, 35781065, 31805391, 28624852, 26022593, 23854043, 22019117, 20446323>> @@
    477081034 :> <<286248620, 143124310, 95416206, 71562155, 57249724, 47708103, 40892660, 35781077, 31805402, 28624862, 26022601, 23854051, 22019124, 20446330>> @@
    477086708 :> <<286252025, 143126012, 95417341, 71563006, 57250405, 47708670, 40893146, 35781503, 31805780, 28625202, 26022911, 23854335, 22019386, 20446573>> @@
    477106649 :> <<286263989, 143131994, 95421329, 71565997, 57252797, 47710664, 40894855, 35782998, 31807109, 28626398, 26023999, 23855332, 22020306, 20447427>> @@
    477108162 :> <<286264897, 143132448, 95421632, 71566224, 57252979, 47710816, 40894985, 35783112, 31807210, 28626489, 26024081, 23855408, 22020376, 20447492>> @@
    477109256 :> <<286265554, 143132777, 95421851, 71566388, 57253110, 47710925, 40895079, 35783194, 31807283, 28626555, 26024141, 23855462, 22020427, 20447539>> @@
    477118735 :> <<286271241, 143135620, 95423747, 71567810, 57254248, 47711873, 40895891, 35783905, 31807915, 28627124, 26024658, 23855936, 22020864, 20447945>> @@
    477137433 :> <<286282460, 143141230, 95427486, 71570615, 57256492, 47713743, 40897494, 35785307, 31809162, 28628246, 26025678, 23856871, 22021727, 20448747>> @@
    477142596 :> <<286285557, 143142778, 95428519, 71571389, 57257111, 47714259, 40897936, 35785694, 31809506, 28628555, 26025959, 23857129, 22021965, 20448968>> @@
    477145246 :> <<286287147, 143143573, 95429049, 71571786, 57257429, 47714524, 40898163, 35785893, 31809683, 28628714, 26026104, 23857262, 22022088, 20449081>> @@
    477158139 :> <<286294883, 143147441, 95431627, 71573720, 57258976, 47715813, 40899269, 35786860, 31810542, 28629488, 26026807, 23857906, 22022683, 20449634>> @@
    477165457 :> <<286299274, 143149637, 95433091, 71574818, 57259854, 47716545, 40899896, 35787409, 31811030, 28629927, 26027206, 23858272, 22023021, 20449948>>

----------------------------------------------------------------------------
(* Geodesy *)

haversine_distance(lat, lon, pier) == HaversineTable[<<lat, lon>>][pier]

calculate_bearing(lat, lon, pier) ==
    LET b == BearingTable[<<lat, lon>>][pier]
    IN  [lo |-> b,
         hi |-> IF <<<<lat, lon>>, pier>> \in WholeBearings THEN b ELSE b + 1]

\* degrees in the unit of a bearing
Deg(d) == d * 1000

\* hundredths of a nautical mile in the unit of a distance
NmHundredths(h) == h * 1000

----------------------------------------------------------------------------
(* Vessel physics *)

Chars_tanker == <<"t","a","n","k","e","r">>

Chars_crude == <<"c","r","u","d","e">>

Chars_container == <<"c","o","n","t","a","i","n","e","r">>

Chars_cargo == <<"c","a","r","g","o">>

Chars_bulk == <<"b","u","l","k">>

Chars_passenger == <<"p","a","s","s","e","n","g","e","r">>

Chars_cruise == <<"c","r","u","i","s","e">>

Chars_tug == <<"t","u","g">>

Chars_fishing == <<"f","i","s","h","i","n","g">>

\* coefficient * length_m ** exponent, coefficient and exponent in hundredths
PowerLaw(coefficient, exponent, length_m) ==
    PowerLawTable[<<coefficient, exponent>>][length_m]

\* variant: the default length is 100 m
LengthOrDefault_Hundred(length_m) ==
    IF IsNone(length_m) \/ length_m.n <= 0 THEN 100 ELSE length_m.n

\* the length estimate_vessel_mass computes with
LengthOrDefault(length_m) ==
    IF IsNone(length_m) \/ length_m.n <= 0 THEN 50 ELSE length_m.n

\* variant: the bulk keyword is tested before the container and cargo keywords
estimate_vessel_mass_BulkFirst(ship_type, length_m) ==
    LET len == LengthOrDefault(length_m)
        ship_type_lower ==
            IF Truthy(ship_type) THEN Lower(StrOf(ship_type)) ELSE <<>>
    IN  IF Contains(ship_type_lower, Chars_tanker)
           \/ Contains(ship_type_lower, Chars_crude)
        THEN PowerLaw(50, 250, len)
        ELSE IF Contains(ship_type_lower, Chars_bulk)
        THEN PowerLaw(45, 245, len)
        ELSE IF Contains(ship_type_lower, Chars_container)
                \/ Contains(ship_type_lower, Chars_cargo)
        THEN PowerLaw(40, 240, len)
        ELSE IF Contains(ship_type_lower, Chars_passenger)
                \/ Contains(ship_type_lower, Chars_cruise)
        THEN PowerLaw(25, 230, len)
        ELSE IF Contains(ship_type_lower, Chars_tug)
        THEN PowerLaw(60, 220, len)
        ELSE IF Contains(ship_type_lower, Chars_fishing)
        THEN PowerLaw(30, 210, len)
        ELSE PowerLaw(35, 230, len)

estimate_vessel_mass(ship_type, length_m) ==
    LET len == LengthOrDefault(length_m)
        ship_type_lower ==
            IF Truthy(ship_type) THEN Lower(StrOf(ship_type)) ELSE <<>>
    IN  IF Contains(ship_type_lower, Chars_tanker)
           \/ Contains(ship_type_lower, Chars_crude)
        THEN PowerLaw(50, 250, len)
        ELSE IF Contains(ship_type_lower, Chars_container)
                \/ Contains(ship_type_lower, Chars_cargo)
        THEN PowerLaw(40, 240, len)
        ELSE IF Contains(ship_type_lower, Chars_bulk)
        THEN PowerLaw(45, 245, len)
        ELSE IF Contains(ship_type_lower, Chars_passenger)
                \/ Contains(ship_type_lower, Chars_cruise)
        THEN PowerLaw(25, 230, len)
        ELSE IF Contains(ship_type_lower, Chars_tug)
        THEN PowerLaw(60, 220, len)
        ELSE IF Contains(ship_type_lower, Chars_fishing)
        THEN PowerLaw(30, 210, len)
        ELSE PowerLaw(35, 230, len)

\* KE / 1.5 / 1e6 MN with KE = 0.5 * (1000 * tonnes) * (0.5144 * knots)^2
calculate_aashto_impact_force(vessel_mass_tonnes, velocity_knots) ==
    ImpactForceTable[vessel_mass_tonnes][velocity_knots + 1]

get_vessel_length(dimension_data) ==
    IF dimension_data.t = "dict"
    THEN LET a == Or(Get(dimension_data.d, "A", Num(0)), Num(0)).n
             b == Or(Get(dimension_data.d, "B", Num(0)), Num(0)).n
             length == a + b
         IN  IF length > 0 THEN Num(length) ELSE None
    ELSE None

----------------------------------------------------------------------------
(* analyze_vessel_threat *)

\* float('inf'): above every distance and every time the model computes
Infinity == 2147483647

\* variant: a pier at the same distance replaces the one found before
RECURSIVE ClosestPierFrom_LastMinimum(_, _, _, _, _, _)
ClosestPierFrom_LastMinimum(lat, lon, keys, i, min_distance, closest_pier) ==
    IF i > Len(keys)
    THEN [min_distance |-> min_distance, closest_pier |-> closest_pier]
    ELSE LET dist == haversine_distance(lat, lon, keys[i])
         IN  IF dist <= min_distance
             THEN ClosestPierFrom_LastMinimum(lat, lon, keys, i + 1,
                                              dist, keys[i])
             ELSE ClosestPierFrom_LastMinimum(lat, lon, keys, i + 1,
                                              min_distance, closest_pier)

\* the scan for the closest pier, from the i-th key of the table on
RECURSIVE ClosestPierFrom(_, _, _, _, _, _)
ClosestPierFrom(lat, lon, keys, i, min_distance, closest_pier) ==
    IF i > Len(keys)
    THEN [min_distance |-> min_distance, closest_pier |-> closest_pier]
    ELSE LET dist == haversine_distance(lat, lon, keys[i])
         IN  IF dist < min_distance
             THEN ClosestPierFrom(lat, lon, keys, i + 1, dist, keys[i])
             ELSE ClosestPierFrom(lat, lon, keys, i + 1,
                                  min_distance, closest_pier)

ClosestPier(lat, lon, keys) ==
    ClosestPierFrom(lat, lon, keys, 1, Infinity, "None")

\* abs(cog - bearing_to_pier) for a course in whole degrees
AbsDifference(cog, bearing_to_pier) ==
    IF Deg(cog) >= bearing_to_pier.hi
    THEN [lo |-> Deg(cog) - bearing_to_pier.hi,
          hi |-> Deg(cog) - bearing_to_pier.lo]
    ELSE [lo |-> bearing_to_pier.lo - Deg(cog),
          hi |-> bearing_to_pier.hi - Deg(cog)]

\* bearing_diff: above 180 exactly when its hi is, below 30 when its lo is
BearingDiff(cog, bearing_to_pier) ==
    LET bearing_diff == AbsDifference(cog, bearing_to_pier)
    IN  IF bearing_diff.hi > Deg(180)
        THEN [lo |-> Deg(360) - bearing_diff.hi,
              hi |-> Deg(360) - bearing_diff.lo]
        ELSE bearing_diff

\* variant: a difference of exactly 30 degrees counts as approaching
IsApproaching_Inclusive(cog, bearing_to_pier) ==
    BearingDiff(cog, bearing_to_pier).hi <= Deg(30)

IsApproaching(cog, bearing_to_pier) ==
    BearingDiff(cog, bearing_to_pier).lo < Deg(30)

\* variant: a vessel that does not move gets a time of 0
TimeToPier_ZeroWhenStill(min_distance, sog) ==
    IF sog > 0 THEN TimeTable[min_distance][sog] ELSE 0

\* min_distance / sog * 60 minutes
TimeToPier(min_distance, sog) ==
    IF sog > 0 THEN TimeTable[min_distance][sog] ELSE Infinity

\* variant: the bands include their upper ends
DistanceFactor_Inclusive(min_distance) ==
    IF min_distance <= NmHundredths(50) THEN 40
    ELSE IF min_distance <= NmHundredths(100) THEN 25
    ELSE IF min_distance <= NmHundredths(200) THEN 10
    ELSE 0

DistanceFactor(min_distance) ==
    IF min_distance < NmHundredths(50) THEN 40
    ELSE IF min_distance < NmHundredths(100) THEN 25
    ELSE IF min_distance < NmHundredths(200) THEN 10
    ELSE 0

\* variant: the awards of the two upper bands are exchanged
SpeedFactor_Exchanged(sog) ==
    IF sog > 12 THEN 20
    ELSE IF sog > 8 THEN 30
    ELSE IF sog > 4 THEN 10
    ELSE 0

SpeedFactor(sog) ==
    IF sog > 12 THEN 30
    ELSE IF sog > 8 THEN 20
    ELSE IF sog > 4 THEN 10
    ELSE 0

HeadingFactor(is_approaching) == IF is_approaching THEN 20 ELSE 0

MassFactor(mass_tonnes) ==
    IF mass_tonnes > 50000 THEN 10
    ELSE IF mass_tonnes > 10000 THEN 5
    ELSE 0

ThreatScore(min_distance, sog, is_approaching, mass_tonnes) ==
    0 + DistanceFactor(min_distance) + SpeedFactor(sog)
      + HeadingFactor(is_approaching) + MassFactor(mass_tonnes)

\* variant: a score of exactly 60 is not yet critical
ThreatLevel_Above60(threat_score) ==
    IF threat_score > 60 THEN "CRITICAL"
    ELSE IF threat_score >= 40 THEN "HIGH"
    ELSE IF threat_score >= 20 THEN "MEDIUM"
    ELSE "LOW"

ThreatLevel(threat_score) ==
    IF threat_score >= 60 THEN "CRITICAL"
    ELSE IF threat_score >= 40 THEN "HIGH"
    ELSE IF threat_score >= 20 THEN "MEDIUM"
    ELSE "LOW"

\* variant: a coordinate of 0 counts as missing
MissingPosition_Falsy(lat, lon) == ~Truthy(lat) \/ ~Truthy(lon)

\* the report cannot be analysed
MissingPosition(lat, lon) == IsNone(lat) \/ IsNone(lon)

analyze_vessel_threat(v, p) ==
    LET keys == IF IsNone(p) THEN CHESAPEAKE_BAY_BRIDGE_EASTBOUND_PIERS
                ELSE p.keys
        lat == Get(v, "Latitude", None)
        lon == Get(v, "Longitude", None)
        sog == Or(Get(v, "Sog", Num(0)), Num(0)).n
        cog == Or(Get(v, "Cog", Num(0)), Num(0)).n
        ship_type == Get(v, "ShipType", Str(<<"U","n","k","n","o","w","n">>))
        dimension == Get(v, "Dimension", Dict(EmptyDict))
    IN  IF MissingPosition(lat, lon) THEN None
        ELSE
        LET length_m == get_vessel_length(dimension)
            mass_tonnes == estimate_vessel_mass(ship_type, length_m)
            closest == ClosestPier(lat.n, lon.n, keys)
            min_distance == closest.min_distance
            closest_pier == closest.closest_pier
            bearing_to_pier == calculate_bearing(lat.n, lon.n, closest_pier)
            is_approaching == IsApproaching(cog, bearing_to_pier)
            impact_force == calculate_aashto_impact_force(mass_tonnes, sog)
            time_to_pier_minutes == TimeToPier(min_distance, sog)
            threat_score ==
                ThreatScore(min_distance, sog, is_approaching, mass_tonnes)
            threat_level == ThreatLevel(threat_score)
        IN  Dict([vessel_name |->
                      Get(v, "name", Str(<<"U","n","k","n","o","w","n">>)),
                  mmsi |-> Get(v, "mmsi", Str(<<"N","/","A">>)),
                  ship_type |-> ship_type,
                  length_m |-> length_m,
                  mass_tonnes |-> mass_tonnes,
                  speed_knots |-> sog,
                  course |-> cog,
                  closest_pier |-> closest_pier,
                  distance_nm |-> min_distance,
                  bearing_to_pier |-> bearing_to_pier,
                  is_approaching |-> is_approaching,
                  time_to_pier_min |-> time_to_pier_minutes,
                  impact_force_MN |-> impact_force,
                  threat_level |-> threat_level,
                  threat_score |-> threat_score])

----------------------------------------------------------------------------
(* analyze_all_vessels and get_threat_summary *)

\* the for loop of analyze_all_vessels: the analyses that are truthy, in order
RECURSIVE CollectAnalyses(_)
CollectAnalyses(reports) ==
    IF reports = <<>> THEN <<>>
    ELSE LET n == Len(reports)
             a == analyze_vessel_threat(reports[n], None)
             before == CollectAnalyses(SubSeq(reports, 1, n - 1))
         IN  IF Truthy(a) THEN Append(before, a) ELSE before

\* variant: an element goes in front of the elements of equal key
RECURSIVE SortByThreatScore_Unstable(_)
SortByThreatScore_Unstable(list) ==
    IF list = <<>> THEN <<>>
    ELSE LET n == Len(list)
             a == list[n]
             sorted == SortByThreatScore_Unstable(SubSeq(list, 1, n - 1))
             k == Cardinality({i \in 1..Len(sorted) :
                      sorted[i].d.threat_score > a.d.threat_score})
         IN  SubSeq(sorted, 1, k) \o <<a>> \o SubSeq(sorted, k + 1, Len(sorted))

\* list.sort(key=threat_score, reverse=True): a stable sort, so an element
\* goes behind every element sorted before it whose key is not smaller
RECURSIVE SortByThreatScore(_)
SortByThreatScore(list) ==
    IF list = <<>> THEN <<>>
    ELSE LET n == Len(list)
             a == list[n]
             sorted == SortByThreatScore(SubSeq(list, 1, n - 1))
             k == Cardinality({i \in 1..Len(sorted) :
                      sorted[i].d.threat_score >= a.d.threat_score})
         IN  SubSeq(sorted, 1, k) \o <<a>> \o SubSeq(sorted, k + 1, Len(sorted))

analyze_all_vessels(reports) == SortByThreatScore(CollectAnalyses(reports))

CountLevel(list, level) ==
    Cardinality({i \in 1..Len(list) : list[i].d.threat_level = level})

\* variant: the force of the first analysis, the one of the highest score
MaxImpactForce_OfFirst(list) == list[1].d.impact_force_MN

MaxImpactForce(list) ==
    LET forces == {list[i].d.impact_force_MN : i \in 1..Len(list)}
    IN  CHOOSE f \in forces : \A g \in forces : g <= f

get_threat_summary(list) ==
    IF list = <<>>
    THEN Dict([total_vessels |-> 0, critical |-> 0, high |-> 0, medium |-> 0,
               low |-> 0, approaching_count |-> 0, max_impact_force |-> 0])
    ELSE Dict([total_vessels |-> Len(list),
               critical |-> CountLevel(list, "CRITICAL"),
               high |-> CountLevel(list, "HIGH"),
               medium |-> CountLevel(list, "MEDIUM"),
               low |-> CountLevel(list, "LOW"),
               approaching_count |->
                   Cardinality({i \in 1..Len(list) : list[i].d.is_approaching}),
               max_impact_force |-> MaxImpactForce(list)])

----------------------------------------------------------------------------
(* Inputs *)

MaxVessels == 3

\* a report with the given key, one for each value, and one without the key
Field(key, values, absent) ==
    {key :> x : x \in values} \cup (IF absent THEN {EmptyDict} ELSE {})

Tanker == Str(<<"T","a","n","k","e","r">>)

Cargo == Str(<<"C","a","r","g","o">>)

VesselName == Str(<<"E","V","E","R">>)

Dim(a, b) == Dict([A |-> a, B |-> b])

\* reports that carry every field: the scoring inputs in all combinations
ScoredReports ==
    {f1 @@ f2 @@ f3 @@ f4 @@ f5 @@ f6 @@ f7 @@ f8 :
        f1 \in Field("Latitude", {Num(3900)}, FALSE),
        f2 \in Field("Longitude", {Num(-7639)}, FALSE),
        f3 \in Field("Sog", {Num(s) : s \in {0, 4, 5, 8, 9, 12, 13}}, FALSE),
        f4 \in Field("Cog", {Num(c) : c \in {0, 30, 200, 270, 330, 350}}, FALSE),
        f5 \in Field("ShipType", {Tanker, Cargo}, FALSE),
        f6 \in Field("Dimension",
                     {Dim(Num(100), Num(50)), Dim(Num(60), Num(40)),
                      Dim(Num(0), Num(50))}, FALSE),
        f7 \in Field("name", {VesselName}, FALSE),
        f8 \in Field("mmsi", {Num(367000001)}, FALSE)}

\* reports with fields absent, null or zero
SparseReports ==
    {f1 @@ f2 @@ f3 @@ f4 @@ f5 @@ f6 :
        f1 \in Field("Latitude", {None, Num(0), Num(3898), Num(3900)}, TRUE),
        f2 \in Field("Longitude", {None, Num(0), Num(-7639)}, TRUE),
        f3 \in Field("Sog", {None, Num(13)}, TRUE),
        f4 \in Field("Cog", {None, Num(350)}, TRUE),
        f5 \in Field("ShipType", {None, Num(0), Num(70), Tanker}, TRUE),
        f6 \in Field("Dimension",
                     {None, Dict(EmptyDict), Dim(Num(0), Num(0)),
                      Dim(None, Num(100)), Dict("A" :> Num(150))}, TRUE)}

\* ship-type texts naming one category, several, or none, in mixed case
ShipTypeTexts ==
    {Str(<<"B","u","l","k"," ","C","a","r","g","o">>),
     Str(<<"B","U","L","K"," ","C","A","R","R","I","E","R">>),
     Str(<<"C","r","u","d","e"," ","O","i","l">>),
     Str(<<"C","a","r","g","o"," ","T","a","n","k","e","r">>),
     Str(<<"C","o","n","t","a","i","n","e","r"," ","S","h","i","p">>),
     Str(<<"C","r","u","i","s","e"," ","T","u","g">>),
     Str(<<"P","a","s","s","e","n","g","e","r">>),
     Str(<<"F","i","s","h","i","n","g"," ","T","u","g">>),
     Str(<<"T","u","g","b","o","a","t">>),
     Str(<<"F","I","S","H","I","N","G">>),
     Str(<<"B","u","l","k"," ","T","a","n","k","e","r">>),
     Str(<<"S","a","i","l","i","n","g">>)}

\* reports at one position that differ in ship type and length
TypedReports ==
    {f1 @@ f2 @@ f3 @@ f4 :
        f1 \in Field("Latitude", {Num(3900)}, FALSE),
        f2 \in Field("Longitude", {Num(-7639)}, FALSE),
        f3 \in Field("ShipType", ShipTypeTexts, FALSE),
        f4 \in Field("Dimension",
                     {Dim(Num(100), Num(50)), Dim(Num(60), Num(40)),
                      Dim(Num(0), Num(50))}, FALSE)}

PierTables ==
    {None, PierDict(CHESAPEAKE_BAY_BRIDGE_EASTBOUND_PIERS),
     PierDict(<<"Test A">>), PierDict(<<"Test A", "Test B">>),
     PierDict(<<"Test B", "Test A">>), PierDict(<<"Test H", "Test D">>),
     PierDict(<<"Test C", "Test D", "Test E">>), PierDict(<<"Test E">>),
     PierDict(<<"Test D", "Test B", "Test C", "Test A">>)}

\* reports of a fleet; the report at position i of a list gets mmsi i
FleetReports ==
    { [Latitude |-> Num(3900), Longitude |-> Num(-7639), Sog |-> Num(13),
       Cog |-> Num(200), ShipType |-> Cargo,
       Dimension |-> Dim(Num(100), Num(50))],
      [Latitude |-> Num(3900), Longitude |-> Num(-7639)],
      [Latitude |-> Num(3898), Longitude |-> Num(-7639), Sog |-> Num(9),
       Cog |-> Num(0), ShipType |-> Tanker,
       Dimension |-> Dim(Num(60), Num(40))],
      [Latitude |-> Num(3898), Longitude |-> Num(-7639), Sog |-> Num(5),
       Cog |-> Num(200), ShipType |-> Tanker,
       Dimension |-> Dim(Num(60), Num(40))],
      [Latitude |-> Num(3897), Longitude |-> Num(-7639), Sog |-> Num(5),
       Cog |-> Num(270)],
      [Latitude |-> Num(0), Longitude |-> Num(0), Sog |-> Num(13)],
      [Latitude |-> Num(0), Longitude |-> Num(-7639), Cog |-> Num(200)],
      [Longitude |-> Num(-7639), Sog |-> Num(13)],
      [Latitude |-> Num(3900), Longitude |-> None, Sog |-> Num(13)] }

FleetLists ==
    UNION {[1..n -> FleetReports] : n \in 0..MaxVessels}

WithMmsi(reports) ==
    [i \in 1..Len(reports) |-> reports[i] @@ ("mmsi" :> Num(i))]

----------------------------------------------------------------------------
(* The callers *)

\* a caller about to call analyze_vessel_threat(vessel, piers)
InitVessel ==
    /\ pc = "vessel"
    /\ \/ vessel \in ScoredReports /\ piers \in PierTables
       \/ vessel \in SparseReports /\ piers = None
       \/ vessel \in TypedReports /\ piers = None
    /\ analysis = None
    /\ vessels_data = <<>>
    /\ analyses = <<>>
    /\ summary = None

\* the dashboard with the vessel data loaded
InitFleet ==
    /\ pc = "loaded"
    /\ \E reports \in FleetLists : vessels_data = WithMmsi(reports)
    /\ vessel = EmptyDict
    /\ piers = None
    /\ analysis = None
    /\ analyses = <<>>
    /\ summary = None

Init == InitVessel \/ InitFleet

AnalyzeVesselThreat ==
    /\ pc = "vessel"
    /\ analysis' = analyze_vessel_threat(vessel, piers)
    /\ pc' = "returned"
    /\ UNCHANGED <<vessel, piers, vessels_data, analyses, summary>>

AnalyzeAllVessels ==
    /\ pc = "loaded"
    /\ analyses' = analyze_all_vessels(vessels_data)
    /\ pc' = "analyzed"
    /\ UNCHANGED <<vessel, piers, analysis, vessels_data, summary>>

GetThreatSummary ==
    /\ pc = "analyzed"
    /\ summary' = get_threat_summary(analyses)
    /\ pc' = "summarized"
    /\ UNCHANGED <<vessel, piers, analysis, vessels_data, analyses>>

Next == AnalyzeVesselThreat \/ AnalyzeAllVessels \/ GetThreatSummary

Spec == Init /\ [][Next]_vars

----------------------------------------------------------------------------
(* Properties *)

\* the analysis analyze_vessel_threat returned, when it returned one
Returned == pc = "returned" /\ ~IsNone(analysis)

\* every analysis the program has produced
Produced ==
    (IF Returned THEN {analysis.d} ELSE {})
        \cup {analyses[i].d : i \in 1..Len(analyses)}

LevelRank(level) ==
    CASE level = "LOW" -> 0
      [] level = "MEDIUM" -> 1
      [] level = "HIGH" -> 2
      [] level = "CRITICAL" -> 3

LevelByThresholds(score, level) ==
    /\ level = "CRITICAL" <=> score >= 60
    /\ level = "HIGH" <=> (40 <= score /\ score < 60)
    /\ level = "MEDIUM" <=> (20 <= score /\ score < 40)
    /\ level = "LOW" <=> score < 20

\* the level assignment of analyze_vessel_threat on every score from 0 to 100
C1_AllScores ==
    /\ \A s \in 0..100 : LevelByThresholds(s, ThreatLevel(s))
    /\ \A s1, s2 \in 0..100 :
          s1 <= s2 => LevelRank(ThreatLevel(s1)) <= LevelRank(ThreatLevel(s2))
    /\ ThreatLevel(60) = "CRITICAL" /\ ThreatLevel(59) = "HIGH"
    /\ ThreatLevel(39) = "MEDIUM" /\ ThreatLevel(19) = "LOW"

\* C1: in every analysis produced, threat_level is fixed by threat_score:
\* CRITICAL iff score >= 60, HIGH iff 40 <= score < 60, MEDIUM iff
\* 20 <= score < 40, LOW iff score < 20; a higher score never has a lower
\* level (60 is CRITICAL, 59 HIGH, 39 MEDIUM, 19 LOW).
C1_LevelFromScore ==
    /\ \A a \in Produced : LevelByThresholds(a.threat_score, a.threat_level)
    /\ \A a, b \in Produced :
          a.threat_score <= b.threat_score
              => LevelRank(a.threat_level) <= LevelRank(b.threat_level)
    /\ C1_AllScores

\* a score of exactly 60 was classified
C1_Witness ==
    Returned /\ analysis.d.threat_score = 60
             /\ analysis.d.threat_level = "CRITICAL"

\* the four factors as the specification tabulates them
BandsOfDistance(d) ==
    IF d < 50000 THEN 40
    ELSE IF 50000 <= d /\ d < 100000 THEN 25
    ELSE IF 100000 <= d /\ d < 200000 THEN 10
    ELSE 0

BandsOfSpeed(s) ==
    IF s > 12 THEN 30
    ELSE IF 8 < s /\ s <= 12 THEN 20
    ELSE IF 4 < s /\ s <= 8 THEN 10
    ELSE 0

BandsOfMass(m) ==
    IF m > 50000 THEN 10
    ELSE IF 10000 < m /\ m <= 50000 THEN 5
    ELSE 0

\* C2: threat_score is the sum of the distance, speed, heading and mass
\* factors, each read from its own input alone; a distance of 0.5 nm, a speed
\* of 12 kn and a mass of 50000 t score in the lower band (25, 20, 5).
C2_ScoreIsSumOfFactors ==
    \A a \in Produced :
        /\ a.threat_score =
               BandsOfDistance(a.distance_nm) + BandsOfSpeed(a.speed_knots)
                 + (IF a.is_approaching THEN 20 ELSE 0)
                 + BandsOfMass(a.mass_tonnes)
        /\ (a.distance_nm = 50000 /\ a.speed_knots = 12 /\ a.mass_tonnes = 50000)
               => a.threat_score = 25 + 20 + 5 + (IF a.is_approaching THEN 20 ELSE 0)

\* all three boundary values at once
C2_Witness ==
    /\ Returned
    /\ analysis.d.distance_nm = 50000
    /\ analysis.d.speed_knots = 12
    /\ analysis.d.mass_tonnes = 50000
    /\ analysis.d.is_approaching
    /\ analysis.d.threat_score = 70

DistanceSamples ==
    {0, 28331, 49999, 50000, 50001, 99999, 100000, 199999, 200000, 476880862}

SpeedSamples == 0..14

MassSamples == {1110, 9999, 10000, 10001, 49999, 50000, 50001, 137784}

\* C3: with the other three inputs held, a smaller distance, a higher speed,
\* approaching instead of not, or a larger mass never gives a lower
\* threat_score, and so never a lower threat_level.
C3_ScoreMonotonic ==
    \A a \in Produced :
        LET d == a.distance_nm
            s == a.speed_knots
            h == a.is_approaching
            m == a.mass_tonnes
            NotLower(score) ==
                /\ score >= a.threat_score
                /\ LevelRank(ThreatLevel(score)) >= LevelRank(a.threat_level)
        IN  /\ \A d2 \in DistanceSamples :
                  d2 <= d => NotLower(ThreatScore(d2, s, h, m))
            /\ \A s2 \in SpeedSamples :
                  s2 >= s => NotLower(ThreatScore(d, s2, h, m))
            /\ ~h => NotLower(ThreatScore(d, s, TRUE, m))
            /\ \A m2 \in MassSamples :
                  m2 >= m => NotLower(ThreatScore(d, s, h, m2))

\* an analysis every input of which can still raise the score
C3_Witness ==
    /\ Returned
    /\ analysis.d.distance_nm >= 50000 /\ analysis.d.distance_nm < 100000
    /\ analysis.d.speed_knots = 5
    /\ ~analysis.d.is_approaching
    /\ analysis.d.mass_tonnes = 50000
    /\ analysis.d.threat_score = 40

\* the pier table analyze_vessel_threat scanned for the returned analysis
ScannedKeys ==
    IF IsNone(piers) THEN CHESAPEAKE_BAY_BRIDGE_EASTBOUND_PIERS ELSE piers.keys

\* C4: distance_nm is the least vessel-to-pier distance over the pier table,
\* and closest_pier is the first pier of the table, in iteration order, at
\* that distance.
C4_ClosestPierFirstMinimum ==
    Returned =>
        LET keys == ScannedKeys
            pos == <<vessel["Latitude"].n, vessel["Longitude"].n>>
            D(i) == HaversineTable[pos][keys[i]]
        IN  /\ \A i \in 1..Len(keys) : analysis.d.distance_nm <= D(i)
            /\ \E i \in 1..Len(keys) :
                  /\ keys[i] = analysis.d.closest_pier
                  /\ D(i) = analysis.d.distance_nm
                  /\ \A j \in 1..(i - 1) : D(j) > D(i)

\* two piers of the table are at the least distance and the later one is
\* listed under the other name first
C4_Witness ==
    /\ Returned
    /\ piers = PierDict(<<"Test B", "Test A">>)
    /\ analysis.d.closest_pier = "Test B"
    /\ analysis.d.distance_nm = HaversineTable[<<3900, -7639>>]["Test A"]

Missing(report, key) == key \notin DOMAIN report \/ IsNone(report[key])

HasPosition(report) ==
    ~Missing(report, "Latitude") /\ ~Missing(report, "Longitude")

\* C5: a report without latitude or longitude gets no analysis (a coordinate
\* of 0 is a coordinate): analyze_vessel_threat returns None for it and an
\* analysis otherwise, and analyze_all_vessels returns one analysis for each
\* report with both coordinates and none for the others, which
\* get_threat_summary therefore does not count.
C5_MissingPositionSkipped ==
    /\ pc = "returned" => (IsNone(analysis) <=> ~HasPosition(vessel))
    /\ pc \in {"analyzed", "summarized"} =>
          LET kept == {i \in 1..Len(vessels_data) : HasPosition(vessels_data[i])}
          IN  /\ Len(analyses) = Cardinality(kept)
              /\ {analyses[i].d.mmsi.n : i \in 1..Len(analyses)} = kept
    /\ pc = "summarized" =>
          summary.d.total_vessels =
              Cardinality({i \in 1..Len(vessels_data) :
                              HasPosition(vessels_data[i])})

\* a fleet of a report at latitude 0, a report without latitude and a report
\* with a null longitude was analysed and summarised
C5_Witness ==
    /\ pc = "summarized"
    /\ Len(vessels_data) = 3
    /\ "Latitude" \in DOMAIN vessels_data[1]
    /\ vessels_data[1]["Latitude"] = Num(0)
    /\ "Latitude" \notin DOMAIN vessels_data[2]
    /\ "Longitude" \in DOMAIN vessels_data[3]
    /\ IsNone(vessels_data[3]["Longitude"])
    /\ Len(analyses) = 1
    /\ summary.d.total_vessels = 1

FleetAnalysed == pc \in {"analyzed", "summarized"}

\* C6: the list analyze_all_vessels returns is in descending order of
\* threat_score, and analyses of equal threat_score keep the order their
\* reports had in the input (the report at position i carries mmsi i).
C6_SortedDescendingStable ==
    FleetAnalysed =>
        \A i, j \in 1..Len(analyses) :
            i < j =>
                /\ analyses[i].d.threat_score >= analyses[j].d.threat_score
                /\ analyses[i].d.threat_score = analyses[j].d.threat_score
                      => analyses[i].d.mmsi.n < analyses[j].d.mmsi.n

\* the sort moved the last report to the front and left two reports of equal
\* score in their input order
C6_Witness ==
    /\ FleetAnalysed
    /\ Len(analyses) = 3
    /\ analyses[1].d.mmsi.n = 3
    /\ analyses[2].d.mmsi.n = 1
    /\ analyses[3].d.mmsi.n = 2
    /\ analyses[2].d.threat_score = analyses[3].d.threat_score
    /\ analyses[2].d.ship_type # analyses[3].d.ship_type

\* C7: get_threat_summary returns the length of the list, the number of
\* analyses of each level, the number that are approaching and the largest
\* impact force; for the empty list every field is 0.
C7_SummaryCounts ==
    pc = "summarized" =>
        LET n == Len(analyses)
            Count(P(_)) == Cardinality({i \in 1..n : P(analyses[i].d)})
            IsCritical(a) == a.threat_level = "CRITICAL"
            IsHigh(a) == a.threat_level = "HIGH"
            IsMedium(a) == a.threat_level = "MEDIUM"
            IsLow(a) == a.threat_level = "LOW"
            Approaches(a) == a.is_approaching
            sm == summary.d
        IN  /\ sm.total_vessels = n
            /\ sm.critical = Count(IsCritical)
            /\ sm.high = Count(IsHigh)
            /\ sm.medium = Count(IsMedium)
            /\ sm.low = Count(IsLow)
            /\ sm.approaching_count = Count(Approaches)
            /\ \A i \in 1..n : analyses[i].d.impact_force_MN <= sm.max_impact_force
            /\ n > 0 => \E i \in 1..n :
                            analyses[i].d.impact_force_MN = sm.max_impact_force
            /\ n = 0 => sm = [total_vessels |-> 0, critical |-> 0, high |-> 0,
                              medium |-> 0, low |-> 0, approaching_count |-> 0,
                              max_impact_force |-> 0]
            /\ vessels_data = <<>> => n = 0

\* a fleet of three levels was summarised, its first report one at rest
C7_Witness ==
    /\ pc = "summarized"
    /\ summary.d.total_vessels = 3
    /\ summary.d.critical = 1
    /\ summary.d.high = 1
    /\ summary.d.low = 1
    /\ summary.d.approaching_count = 1
    /\ summary.d.max_impact_force > 0
    /\ vessels_data[1]["Latitude"] = Num(0)

Max(a, b) == IF a >= b THEN a ELSE b

\* a bearing of a whole number of units, and one strictly between two
Whole(b) == [lo |-> b, hi |-> b]

Between(b) == [lo |-> b, hi |-> b + 1]

\* |cog - bearing|, folded at 180 degrees, rounded down (lo) and up (hi)
FoldedDifference(cog, bearing) ==
    LET c == 1000 * cog
        below == Max(c - bearing.hi, bearing.lo - c)
        above == Max(c - bearing.lo, bearing.hi - c)
    IN  IF above > 180000
        THEN [lo |-> 360000 - above, hi |-> 360000 - below]
        ELSE [lo |-> below, hi |-> above]

\* the fold on every whole course and every bearing of whole degrees, and
\* every bearing just above whole degrees
C8_AllAngles ==
    /\ \A cog \in 0..359 : \A b \in 0..359 :
          \A bearing \in {Whole(Deg(b)), Between(Deg(b))} :
              /\ BearingDiff(cog, bearing) = FoldedDifference(cog, bearing)
              /\ BearingDiff(cog, bearing).lo >= 0
              /\ BearingDiff(cog, bearing).hi <= 180000
              /\ IsApproaching(cog, bearing)
                    <=> FoldedDifference(cog, bearing).lo < 30000
    /\ IsApproaching(350, Whole(Deg(10)))
    /\ ~IsApproaching(30, Whole(Deg(0))) /\ ~IsApproaching(40, Whole(Deg(10)))
    /\ IsApproaching(64, Between(34000)) /\ ~IsApproaching(4, Between(34000))

\* C8: for a course and a bearing in [0, 360) the angular difference is
\* |cog - bearing|, replaced by 360 minus it when above 180, so in [0, 180];
\* is_approaching holds exactly when it is below 30 degrees (a difference of
\* exactly 30 is not approaching; course 350 and bearing 10 is).
C8_ApproachingWithin30 ==
    /\ Returned =>
          LET diff == FoldedDifference(analysis.d.course,
                                       analysis.d.bearing_to_pier)
          IN  /\ 0 <= diff.lo /\ diff.hi <= 180000
              /\ analysis.d.is_approaching <=> diff.lo < 30000
    /\ C8_AllAngles

\* a course of 330 against a bearing of 0: the difference folds to exactly 30
C8_Witness ==
    /\ Returned
    /\ analysis.d.course = 330
    /\ analysis.d.bearing_to_pier = Whole(0)
    /\ ~analysis.d.is_approaching

\* the mass law of the report's ship type
LawOf(report) ==
    IF "ShipType" \notin DOMAIN report THEN <<35, 230>>
    ELSE IF report["ShipType"] = Tanker THEN <<50, 250>>
    ELSE IF report["ShipType"] = Cargo THEN <<40, 240>>
    ELSE <<35, 230>>

NoLength(report) ==
    \/ Missing(report, "Dimension")
    \/ \A k \in {"A", "B"} :
          \/ Missing(report["Dimension"].d, k)
          \/ report["Dimension"].d[k] = Num(0)

\* C9: with latitude and longitude present, an absent or null speed gives
\* speed_knots 0, an absent or null course gives course 0, absent or all-zero
\* dimensions give length_m None and mass_tonnes the mass of a 50 m vessel of
\* the report's category, and an absent ship type is of the default category.
C9_DefaultsForAbsentFields ==
    (pc = "returned" /\ HasPosition(vessel)) =>
        /\ ~IsNone(analysis)
        /\ Missing(vessel, "Sog") => analysis.d.speed_knots = 0
        /\ Missing(vessel, "Cog") => analysis.d.course = 0
        /\ NoLength(vessel) =>
              /\ IsNone(analysis.d.length_m)
              /\ analysis.d.mass_tonnes = PowerLawTable[LawOf(vessel)][50]
        /\ Missing(vessel, "ShipType") =>
              \E len \in {50, 100, 150} :
                  analysis.d.mass_tonnes = PowerLawTable[<<35, 230>>][len]

\* a report of a tanker at a position and nothing else
C9_Witness ==
    /\ Returned
    /\ DOMAIN vessel = {"Latitude", "Longitude", "ShipType"}
    /\ vessel["ShipType"] = Tanker
    /\ analysis.d.speed_knots = 0
    /\ analysis.d.course = 0
    /\ IsNone(analysis.d.length_m)
    /\ analysis.d.mass_tonnes = 8839

\* C10: time_to_pier_min is the infinite sentinel exactly when the speed is 0
\* and is distance_nm / speed * 60 otherwise (rounded down, of a distance of
\* at least distance_nm units and less than one more), finite and not
\* negative; impact_force_MN is 0 whenever the speed is 0.
C10_ZeroSpeed ==
    \A a \in Produced :
        /\ a.time_to_pier_min = Infinity <=> a.speed_knots = 0
        /\ a.speed_knots # 0 =>
              /\ 5 * a.speed_knots * a.time_to_pier_min
                    < 3 * (a.distance_nm + 1)
              /\ 3 * a.distance_nm
                    < 5 * a.speed_knots * (a.time_to_pier_min + 1)
              /\ 0 <= a.time_to_pier_min /\ a.time_to_pier_min < Infinity
        /\ a.speed_knots = 0 => a.impact_force_MN = 0

\* a vessel of 137784 t lying still 0.5 nm from the pier
C10_Witness ==
    /\ Returned
    /\ analysis.d.speed_knots = 0
    /\ analysis.d.mass_tonnes = 137784
    /\ analysis.d.distance_nm = 50000
    /\ analysis.d.time_to_pier_min = Infinity
    /\ analysis.d.impact_force_MN = 0

\* the categories in their order of priority: keywords, then the pair
\* <<100 * coefficient, 100 * exponent>>
CategoryPriority ==
    << [keywords |-> {Chars_tanker, Chars_crude}, law |-> <<50, 250>>],
       [keywords |-> {Chars_container, Chars_cargo}, law |-> <<40, 240>>],
       [keywords |-> {Chars_bulk}, law |-> <<45, 245>>],
       [keywords |-> {Chars_passenger, Chars_cruise}, law |-> <<25, 230>>],
       [keywords |-> {Chars_tug}, law |-> <<60, 220>>],
       [keywords |-> {Chars_fishing}, law |-> <<30, 210>>] >>

\* the text the keywords are searched in: empty for an absent, null or zero
\* ship type
SearchedText(ship_type) ==
    IF ship_type.t = "str" THEN Lower(ship_type.s)
    ELSE IF ship_type.t = "num" /\ ship_type.n # 0 THEN Decimal(ship_type.n)
    ELSE <<>>

Matches(text, i) ==
    \E kw \in CategoryPriority[i].keywords : Contains(text, kw)

\* the pair of the first category in priority order a keyword of which the
\* text contains, the default pair when there is none
LawByPriority(text) ==
    LET matching == {i \in 1..Len(CategoryPriority) : Matches(text, i)}
    IN  IF matching = {} THEN <<35, 230>>
        ELSE CategoryPriority[CHOOSE i \in matching :
                                  \A j \in matching : i <= j].law

\* C11: estimate_vessel_mass selects one category by case-insensitive
\* substring match on the ship type; of several matching categories the first
\* in the order tanker/crude, container/cargo, bulk, passenger/cruise, tug,
\* fishing wins, and no match or an absent type gives the default; the
\* category alone fixes the (coefficient, exponent) applied to the length.
C11_FirstMatchingCategory ==
    \A a \in Produced :
        LET len == IF IsNone(a.length_m) THEN 50 ELSE a.length_m.n
            law == LawByPriority(SearchedText(a.ship_type))
        IN  /\ a.mass_tonnes = PowerLawTable[law][len]
            /\ Cardinality({l \in DOMAIN PowerLawTable :
                               a.mass_tonnes = PowerLawTable[l][len]}) = 1

\* a 150 m vessel of type "Bulk Cargo" got the container/cargo mass
C11_Witness ==
    /\ Returned
    /\ analysis.d.ship_type = Str(<<"B","u","l","k"," ","C","a","r","g","o">>)
    /\ analysis.d.length_m = Num(150)
    /\ analysis.d.mass_tonnes = PowerLawTable[<<40, 240>>][150]
    /\ analysis.d.mass_tonnes # PowerLawTable[<<45, 245>>][150]

====
